---- MODULE Spec2Model ----
(***************************************************************************)
(* A model of the legit-template engine: lexer -> parser -> compiler ->    *)
(* inheritance resolution -> execution of the compiled Go template.        *)
(*                                                                         *)
(* Text is modelled as a sequence of one-character strings.  A compiled    *)
(* template (a Go template string in the code) is modelled as a sequence   *)
(* of items: a literal text run, or one "{{ ... }}" action the compiler    *)
(* emits.  String searches of the resolver (strings.Index, HasPrefix,      *)
(* ReplaceAll on the compiled string) become searches over items; this is  *)
(* exact as long as literal text holds no "{{", which the lexer guarantees *)
(* for every text token outside @verbatim.                                 *)
(***************************************************************************)
EXTENDS Integers, Sequences, FiniteSets, TLC

(***************************************************************************)
(* Characters and character sequences                                      *)
(***************************************************************************)
Lower == {"a","b","c","d","e","f","g","h","i","j","k","l","m",
          "n","o","p","q","r","s","t","u","v","w","x","y","z"}
Upper == {"A","B","C","D","E","F","G","H","I","J","K","L","M",
          "N","O","P","Q","R","S","T","U","V","W","X","Y","Z"}
Letters == Lower \cup Upper
Digits == {"0","1","2","3","4","5","6","7","8","9"}

IsLetter(ch) == ch \in Letters

\* a byte of a multi-byte UTF-8 character is written 0x..: "0xC3", "0xA9" are
\* the two bytes of U+00E9.  unicode.IsLetter(rune(b)) takes the byte b for the
\* code point of that number: 0xC3 is U+00C3, a letter; 0xA9 is U+00A9, none
IsLetterByte(b) == IsLetter(b) \/ b = "0xC3"
IsContinuationByte(b) == b = "0xA9"
IsDigit(ch) == ch \in Digits
IsSpace(ch) == ch \in {" ", "\t", "\n", "\r"}

RECURSIVE Str(_)
Str(s) == IF s = <<>> THEN "" ELSE s[1] \o Str(Tail(s))

\* s[from..to) with 0-based offsets, as Go's s[from:to]
Slice(s, from, to) == SubSeq(s, from + 1, to)

\* strings.HasPrefix(s[at:], p), at 0-based
HasPrefixAt(s, at, p) ==
    /\ at + Len(p) <= Len(s)
    /\ \A i \in 1..Len(p) : s[at + i] = p[i]

RECURSIVE TrimLeft(_)
TrimLeft(s) == IF s # <<>> /\ IsSpace(s[1]) THEN TrimLeft(Tail(s)) ELSE s
RECURSIVE TrimRight(_)
TrimRight(s) ==
    IF s # <<>> /\ IsSpace(s[Len(s)]) THEN TrimRight(SubSeq(s, 1, Len(s) - 1)) ELSE s
\* strings.TrimSpace
TrimSpace(s) == TrimRight(TrimLeft(s))

\* strings.Index(s, p): 0-based offset of the first occurrence, -1 if none
IndexOf(s, p) ==
    LET hits == {i \in 0..Len(s) : HasPrefixAt(s, i, p)}
    IN IF hits = {} THEN -1 ELSE CHOOSE i \in hits : \A j \in hits : i <= j

\* strings.ReplaceAll(s, old, new) for non-empty old
RECURSIVE ReplaceAll(_, _, _)
ReplaceAll(s, old, new) ==
    IF s = <<>> THEN <<>>
    ELSE IF HasPrefixAt(s, 0, old)
         THEN new \o ReplaceAll(Slice(s, Len(old), Len(s)), old, new)
         ELSE <<s[1]>> \o ReplaceAll(Tail(s), old, new)

RECURSIVE Concat(_)
Concat(ss) == IF ss = <<>> THEN <<>> ELSE ss[1] \o Concat(Tail(ss))

(***************************************************************************)
(* Lexer                                                                   *)
(***************************************************************************)
Position(line, column, offset) == [line |-> line, column |-> column, offset |-> offset]

Token(type, value, args, position) ==
    [type |-> type, value |-> value, args |-> args, position |-> position]

\* lexer.New
NewLexer == [pos |-> 0, line |-> 1, column |-> 1, inVerbatim |-> FALSE, tokens |-> <<>>]

LexerError(message, position) == [message |-> message, position |-> position]
NoError == [message |-> "", position |-> Position(0, 0, 0)]

\* Lexer.current: 0 past the end (modelled as the empty string)
current(input, l) == IF l.pos >= Len(input) THEN "" ELSE input[l.pos + 1]

\* Lexer.advance
advance(input, l) ==
    IF l.pos < Len(input)
    THEN IF input[l.pos + 1] = "\n"
         THEN [l EXCEPT !.line = @ + 1, !.column = 1, !.pos = @ + 1]
         ELSE [l EXCEPT !.column = @ + 1, !.pos = @ + 1]
    ELSE l

RECURSIVE advanceN(_, _, _)
advanceN(input, l, n) == IF n <= 0 THEN l ELSE advanceN(input, advance(input, l), n - 1)

\* Lexer.matchString
matchString(input, l, s) == HasPrefixAt(input, l.pos, s)

RECURSIVE skipWhitespace(_, _)
skipWhitespace(input, l) ==
    IF l.pos < Len(input) /\ input[l.pos + 1] \in {" ", "\t"}
    THEN skipWhitespace(input, advance(input, l))
    ELSE l

PosOf(l) == Position(l.line, l.column, l.pos)

LexResult(l, tok, err) == [l |-> l, tok |-> tok, err |-> err]
EOFToken == Token("EOF", <<>>, <<>>, Position(0, 0, 0))

\* the loop "for l.pos < len(l.input) { if l.matchString(close) {...}; l.advance() }"
\* shared by scanComment, scanRawEcho, scanEscapedEcho and scanVerbatimContent:
\* the lexer state at the first match of close, or at the end of input
RECURSIVE scanUntil(_, _, _)
scanUntil(input, l, close) ==
    IF l.pos < Len(input) /\ ~matchString(input, l, close)
    THEN scanUntil(input, advance(input, l), close)
    ELSE l

scanComment(input, l0, startPos) ==
    LET l1 == advanceN(input, l0, 4)
        l2 == scanUntil(input, l1, <<"-", "-", "}", "}">>)
    IN IF l2.pos < Len(input)
       THEN LexResult(advanceN(input, l2, 4),
                      Token("COMMENT", TrimSpace(Slice(input, l1.pos, l2.pos)), <<>>, startPos),
                      NoError)
       ELSE LexResult(l2, EOFToken, LexerError("Unclosed comment", startPos))

scanRawEcho(input, l0, startPos) ==
    LET l1 == skipWhitespace(input, advanceN(input, l0, 3))
        l2 == scanUntil(input, l1, <<"!", "!", "}">>)
    IN IF l2.pos < Len(input)
       THEN LexResult(advanceN(input, l2, 3),
                      Token("ECHO_RAW", TrimSpace(Slice(input, l1.pos, l2.pos)), <<>>, startPos),
                      NoError)
       ELSE LexResult(l2, EOFToken, LexerError("Unclosed raw echo", startPos))

scanEscapedEcho(input, l0, startPos) ==
    LET l1 == skipWhitespace(input, advanceN(input, l0, 2))
        l2 == scanUntil(input, l1, <<"}", "}">>)
    IN IF l2.pos < Len(input)
       THEN LexResult(advanceN(input, l2, 2),
                      Token("ECHO_ESCAPED", TrimSpace(Slice(input, l1.pos, l2.pos)), <<>>, startPos),
                      NoError)
       ELSE LexResult(l2, EOFToken, LexerError("Unclosed echo", startPos))

\* the loop of scanDirectiveArgs counting every parenthesis, quoted or not
RECURSIVE scanArgsLoopUnquoted(_, _)
scanArgsLoopUnquoted(input, st) ==
    IF st.l.pos < Len(input) /\ st.depth > 0
    THEN LET ch == input[st.l.pos + 1]
             depth1 == IF ch = "(" THEN st.depth + 1
                       ELSE IF ch = ")" THEN st.depth - 1 ELSE st.depth
             l1 == IF depth1 > 0 THEN advance(input, st.l) ELSE st.l
         IN scanArgsLoopUnquoted(input, [st EXCEPT !.l = l1, !.depth = depth1])
    ELSE st

\* the loop of scanDirectiveArgs; st = [l, depth, inString, stringChar]
RECURSIVE scanArgsLoop(_, _)
scanArgsLoop(input, st) ==
    IF st.l.pos < Len(input) /\ st.depth > 0
    THEN LET ch == input[st.l.pos + 1]
             quote == ch \in {"\"", "'"} /\ (st.l.pos = 0 \/ input[st.l.pos] # "\\")
             inString1 == IF quote
                          THEN IF ~st.inString THEN TRUE
                               ELSE IF ch = st.stringChar THEN FALSE ELSE TRUE
                          ELSE st.inString
             stringChar1 == IF quote /\ ~st.inString THEN ch ELSE st.stringChar
             depth1 == IF ~inString1
                       THEN IF ch = "(" THEN st.depth + 1
                            ELSE IF ch = ")" THEN st.depth - 1 ELSE st.depth
                       ELSE st.depth
             l1 == IF depth1 > 0 THEN advance(input, st.l) ELSE st.l
         IN scanArgsLoop(input, [l |-> l1, depth |-> depth1,
                                 inString |-> inString1, stringChar |-> stringChar1])
    ELSE st

\* Lexer.scanDirectiveArgs: [l, args, err]
scanDirectiveArgs(input, l0) ==
    LET l1 == advance(input, l0)
        st == scanArgsLoop(input, [l |-> l1, depth |-> 1, inString |-> FALSE, stringChar |-> ""])
    IN IF st.depth # 0
       THEN [l |-> st.l, args |-> <<>>,
             err |-> LexerError("Unclosed parenthesis in directive arguments", PosOf(st.l))]
       ELSE [l |-> advance(input, st.l),
             args |-> TrimSpace(Slice(input, l1.pos, st.l.pos)),
             err |-> NoError]

RECURSIVE scanName(_, _)
scanName(input, l) ==
    IF l.pos < Len(input)
       /\ (IsLetterByte(input[l.pos + 1]) \/ IsDigit(input[l.pos + 1]) \/ input[l.pos + 1] = "_")
    THEN scanName(input, advance(input, l))
    ELSE l

scanDirective(input, l0, startPos) ==
    LET l1 == advance(input, l0)
        l2 == scanName(input, l1)
        name == Slice(input, l1.pos, l2.pos)
    IN IF Str(name) = "verbatim"
       THEN LexResult([l2 EXCEPT !.inVerbatim = TRUE],
                      Token("VERBATIM_START", name, <<>>, startPos), NoError)
       ELSE IF l2.pos < Len(input) /\ input[l2.pos + 1] = "("
            THEN LET withArgs(r) ==
                         IF r.err # NoError
                         THEN LexResult(r.l, EOFToken, r.err)
                         ELSE LexResult(r.l, Token("DIRECTIVE_ARGS", name, r.args, startPos),
                                        NoError)
                 IN withArgs(scanDirectiveArgs(input, l2))
            ELSE LexResult(l2, Token("DIRECTIVE", name, <<>>, startPos), NoError)

\* "@" followed by a letter or "_" starts a directive
DirectiveStart(input, l) ==
    /\ current(input, l) = "@"
    /\ l.pos + 1 < Len(input)
    /\ (IsLetterByte(input[l.pos + 2]) \/ input[l.pos + 2] = "_")

RECURSIVE scanTextLoop(_, _)
scanTextLoop(input, l) ==
    IF /\ l.pos < Len(input)
       /\ ~matchString(input, l, <<"{", "{">>)
       /\ ~matchString(input, l, <<"{", "!", "!">>)
       /\ ~matchString(input, l, <<"@", "@">>)
       /\ ~DirectiveStart(input, l)
    THEN scanTextLoop(input, advance(input, l))
    ELSE l

scanVerbatimContent(input, l0, startPos) ==
    LET l1 == scanUntil(input, l0, <<"@","e","n","d","v","e","r","b","a","t","i","m">>)
    IN IF l1.pos < Len(input)
       THEN LET content == Slice(input, l0.pos, l1.pos)
                l2 == advanceN(input, l1, 12)
                l3 == [l2 EXCEPT !.inVerbatim = FALSE,
                                 !.tokens = IF content # <<>>
                                            THEN Append(@, Token("TEXT", content, <<>>, startPos))
                                            ELSE @]
            IN LexResult(l3,
                         Token("VERBATIM_END", <<"e","n","d","v","e","r","b","a","t","i","m">>, <<>>,
                               Position(l3.line, l3.column - 12, l3.pos - 12)),
                         NoError)
       ELSE LexResult(l1, EOFToken, LexerError("Unclosed @verbatim block", startPos))

RECURSIVE nextToken(_, _)
\* Lexer.scanText
scanText(input, l0, startPos) ==
    LET l1 == scanTextLoop(input, l0)
        content == Slice(input, l0.pos, l1.pos)
    IN IF content = <<>>
       THEN nextToken(input, l1)
       ELSE LexResult(l1, Token("TEXT", content, <<>>, startPos), NoError)

\* Lexer.nextToken
nextToken(input, l) ==
    IF l.pos >= Len(input) THEN LexResult(l, EOFToken, NoError)
    ELSE LET startPos == PosOf(l)
         IN IF l.inVerbatim THEN scanVerbatimContent(input, l, startPos)
            ELSE IF matchString(input, l, <<"{", "{", "-", "-">>) THEN scanComment(input, l, startPos)
            ELSE IF matchString(input, l, <<"{", "!", "!">>) THEN scanRawEcho(input, l, startPos)
            ELSE IF matchString(input, l, <<"{", "{">>) THEN scanEscapedEcho(input, l, startPos)
            ELSE IF matchString(input, l, <<"@", "@">>)
                 THEN LexResult(advance(input, advance(input, l)),
                                Token("TEXT", <<"@">>, <<>>, startPos), NoError)
            ELSE IF DirectiveStart(input, l) THEN scanDirective(input, l, startPos)
            ELSE scanText(input, l, startPos)

\* the loop of Lexer.Tokenize: [tokens, err]
RECURSIVE TokenizeLoop(_, _)
TokenizeLoop(input, l) ==
    IF l.pos < Len(input)
    THEN LET append(r) ==
                 IF r.err # NoError
                 THEN [tokens |-> <<>>, err |-> r.err]
                 ELSE TokenizeLoop(input,
                                   IF r.tok.type # "EOF"
                                   THEN [r.l EXCEPT !.tokens = Append(@, r.tok)]
                                   ELSE r.l)
         IN append(nextToken(input, l))
    ELSE [tokens |-> Append(l.tokens, Token("EOF", <<>>, <<>>, PosOf(l))), err |-> NoError]

\* Lexer.Tokenize
Tokenize(input) == TokenizeLoop(input, NewLexer)

(***************************************************************************)
(* Parser                                                                  *)
(***************************************************************************)
\* parser.New: pos is the 0-based index of the current token
NewParser(ts) == [pos |-> 0, current |-> IF Len(ts) > 0 THEN ts[1] ELSE EOFToken]

\* Parser.advance: current keeps its value when pos runs past the tokens
padvance(ts, p) ==
    [pos |-> p.pos + 1,
     current |-> IF p.pos + 1 < Len(ts) THEN ts[p.pos + 2] ELSE p.current]

isAtEnd(ts, p) == p.pos >= Len(ts) \/ p.current.type = "EOF"

isDirective(p, name) ==
    /\ p.current.type \in {"DIRECTIVE", "DIRECTIVE_ARGS"}
    /\ Str(p.current.value) = name

isAnyDirective(p, names) == \E n \in names : isDirective(p, n)

trimQuotes(s0) ==
    LET unquote(s) ==
            IF /\ Len(s) >= 2
               /\ \/ (s[1] = "\"" /\ s[Len(s)] = "\"")
                  \/ (s[1] = "'" /\ s[Len(s)] = "'")
            THEN SubSeq(s, 2, Len(s) - 1)
            ELSE s
    IN unquote(TrimSpace(s0))

\* the loop of splitArgs without its bracket depth: every comma outside a
\* quoted string is a boundary
RECURSIVE splitArgsLoopFlat(_, _, _)
splitArgsLoopFlat(args, i, st) ==
    IF i > Len(args) THEN st
    ELSE LET quoted(ch, quote) ==
                 [st EXCEPT !.inString = IF quote
                                         THEN IF ~@ THEN TRUE
                                              ELSE IF ch = st.stringChar THEN FALSE ELSE TRUE
                                         ELSE @,
                            !.stringChar = IF quote /\ ~st.inString THEN ch ELSE @]
             split(ch, st1) ==
                 IF ~st1.inString /\ ch = ","
                 THEN [st1 EXCEPT !.result = Append(@, TrimSpace(st1.cur)), !.cur = <<>>]
                 ELSE [st1 EXCEPT !.cur = Append(@, ch)]
         IN splitArgsLoopFlat(args, i + 1,
                split(args[i],
                      quoted(args[i],
                             args[i] \in {"\"", "'"} /\ (i = 1 \/ args[i - 1] # "\\"))))

\* the loop of splitArgs; st = [result, cur, depth, inString, stringChar], i 1-based
RECURSIVE splitArgsLoop(_, _, _)
splitArgsLoop(args, i, st) ==
    IF i > Len(args) THEN st
    ELSE LET \* the "if (ch == '"' || ch == '\'') && (i == 0 || args[i-1] != '\\')" block
             quoted(ch, quote) ==
                 [st EXCEPT !.inString = IF quote
                                         THEN IF ~@ THEN TRUE
                                              ELSE IF ch = st.stringChar THEN FALSE ELSE TRUE
                                         ELSE @,
                            !.stringChar = IF quote /\ ~st.inString THEN ch ELSE @]
             \* the "if !inString { switch ch ... }" block and the final WriteByte
             split(ch, st1) ==
                 IF ~st1.inString /\ ch \in {"(", "[", "{"}
                 THEN [st1 EXCEPT !.depth = @ + 1, !.cur = Append(@, ch)]
                 ELSE IF ~st1.inString /\ ch \in {")", "]", "}"}
                 THEN [st1 EXCEPT !.depth = @ - 1, !.cur = Append(@, ch)]
                 ELSE IF ~st1.inString /\ ch = "," /\ st1.depth = 0
                 THEN [st1 EXCEPT !.result = Append(@, TrimSpace(st1.cur)), !.cur = <<>>]
                 ELSE [st1 EXCEPT !.cur = Append(@, ch)]
         IN splitArgsLoop(args, i + 1,
                split(args[i],
                      quoted(args[i],
                             args[i] \in {"\"", "'"} /\ (i = 1 \/ args[i - 1] # "\\"))))

\* splitArgs: comma-separated arguments respecting strings and brackets
splitArgs(args) ==
    LET flush(st) == IF Len(st.cur) > 0 THEN Append(st.result, TrimSpace(st.cur)) ELSE st.result
    IN flush(splitArgsLoop(args, 1, [result |-> <<>>, cur |-> <<>>, depth |-> 0,
                                     inString |-> FALSE, stringChar |-> ""]))

\* strings.SplitN(s, sep, 2)
SplitN2(s, sep) ==
    LET cut(i) == IF i < 0 THEN <<s>> ELSE <<Slice(s, 0, i), Slice(s, i + Len(sep), Len(s))>>
    IN cut(IndexOf(s, sep))

NoNode == [nt |-> "NONE"]

\* parseForeachArgs (and the same lines of parseForelse): [items, key, value]
parseForeachArgs(args) ==
    LET \* kv is the value part split at "=>": one part when it holds no "=>"
        keyValue(items, kv) ==
            IF Len(kv) >= 2
            THEN [items |-> items, key |-> TrimSpace(kv[1]), value |-> TrimSpace(kv[2])]
            ELSE [items |-> items, key |-> <<>>, value |-> kv[1]]
        split(parts) ==
            IF Len(parts) >= 2
            THEN keyValue(TrimSpace(parts[1]), SplitN2(TrimSpace(parts[2]), <<"=", ">">>))
            ELSE [items |-> TrimSpace(parts[1]), key |-> <<>>, value |-> <<>>]
    IN split(SplitN2(args, <<" ", "a", "s", " ">>))

PRes(p, node) == [p |-> p, node |-> node]

RECURSIVE parseNode(_, _)
RECURSIVE parseChildren(_, _, _, _)
\* the loop "for !p.isAtEnd() && !p.isDirective(stop...) { child := p.parseNode(); append }"
\* of every block parser: [p, children]
parseChildren(ts, p, stops, acc) ==
    IF ~isAtEnd(ts, p) /\ ~isAnyDirective(p, stops)
    THEN LET append(r) ==
                 parseChildren(ts, r.p, stops,
                               IF r.node # NoNode THEN Append(acc, r.node) ELSE acc)
         IN append(parseNode(ts, p))
    ELSE [p |-> p, children |-> acc]

\* a block "children until @end<name>", the terminator consumed when present
parseSimpleBlock(ts, p, endName) ==
    LET close(r) ==
            [p |-> IF isDirective(r.p, endName) THEN padvance(ts, r.p) ELSE r.p,
             children |-> r.children]
    IN close(parseChildren(ts, p, {endName}, <<>>))

\* the loop of Parser.parseIf
RECURSIVE parseIfLoop(_, _, _)
parseIfLoop(ts, p, node) ==
    IF isAtEnd(ts, p) THEN PRes(p, node)
    ELSE IF isDirective(p, "elseif")
    THEN LET r == parseChildren(ts, padvance(ts, p), {"elseif", "else", "endif"}, <<>>)
             elseifNode == [nt |-> "ELSEIF", condition |-> p.current.args, children |-> r.children]
         IN parseIfLoop(ts, r.p, [node EXCEPT !.elseIfs = Append(@, elseifNode)])
    ELSE IF isDirective(p, "else")
    THEN LET r == parseChildren(ts, padvance(ts, p), {"endif"}, <<>>)
         IN parseIfLoop(ts, r.p, [node EXCEPT !.hasElse = TRUE, !.elseChildren = r.children])
    ELSE IF isDirective(p, "endif")
    THEN PRes(padvance(ts, p), node)
    ELSE IF Len(node.elseIfs) = 0 /\ ~node.hasElse
    THEN LET r == parseNode(ts, p)
         IN parseIfLoop(ts, r.p,
                        IF r.node # NoNode
                        THEN [node EXCEPT !.children = Append(@, r.node)]
                        ELSE node)
    ELSE parseIfLoop(ts, p, node)

parseIf(ts, p, condition) ==
    parseIfLoop(ts, p, [nt |-> "IF", condition |-> condition, children |-> <<>>,
                        elseIfs |-> <<>>, hasElse |-> FALSE, elseChildren |-> <<>>])

parseForeach(ts, p, args) ==
    LET node(a, r) ==
            PRes(r.p, [nt |-> "FOREACH", items |-> a.items, key |-> a.key, value |-> a.value,
                       children |-> r.children])
    IN node(parseForeachArgs(args), parseSimpleBlock(ts, p, "endforeach"))

\* the loop of Parser.parseForelse; st = [p, children, empty, inEmpty]
RECURSIVE parseForelseLoop(_, _)
parseForelseLoop(ts, st) ==
    IF ~isAtEnd(ts, st.p) /\ ~isDirective(st.p, "endforelse")
    THEN IF isDirective(st.p, "empty")
         THEN parseForelseLoop(ts, [st EXCEPT !.p = padvance(ts, st.p), !.inEmpty = TRUE])
         ELSE LET r == parseNode(ts, st.p)
              IN parseForelseLoop(ts,
                    IF r.node = NoNode THEN [st EXCEPT !.p = r.p]
                    ELSE IF st.inEmpty
                         THEN [st EXCEPT !.p = r.p, !.empty = Append(@, r.node)]
                         ELSE [st EXCEPT !.p = r.p, !.children = Append(@, r.node)])
    ELSE st

parseForelse(ts, p, args) ==
    LET node(a, st) ==
            PRes(IF isDirective(st.p, "endforelse") THEN padvance(ts, st.p) ELSE st.p,
                 [nt |-> "FORELSE", items |-> a.items, key |-> a.key, value |-> a.value,
                  children |-> st.children, empty |-> st.empty])
    IN node(parseForeachArgs(args),
            parseForelseLoop(ts, [p |-> p, children |-> <<>>, empty |-> <<>>,
                                  inEmpty |-> FALSE]))

\* Parser.parseSection taking every @section for the block form
parseSectionAsBlock(ts, p, args) ==
    LET block(name, r) ==
            PRes(IF isAnyDirective(r.p, {"show", "endsection"}) THEN padvance(ts, r.p) ELSE r.p,
                 [nt |-> "SECTION", name |-> name, content |-> <<>>,
                  children |-> r.children, show |-> isDirective(r.p, "show")])
        named(parts) == block(IF Len(parts) >= 1 THEN trimQuotes(parts[1]) ELSE <<>>,
                              parseChildren(ts, p, {"endsection", "show"}, <<>>))
    IN named(splitArgs(args))

parseSection(ts, p, args) ==
    LET block(name, r) ==
            PRes(IF isAnyDirective(r.p, {"show", "endsection"}) THEN padvance(ts, r.p) ELSE r.p,
                 [nt |-> "SECTION", name |-> name, content |-> <<>>,
                  children |-> r.children, show |-> isDirective(r.p, "show")])
        node(parts, name) ==
            IF Len(parts) >= 2
            THEN PRes(p, [nt |-> "SECTION", name |-> name, content |-> trimQuotes(parts[2]),
                          children |-> <<>>, show |-> FALSE])
            ELSE block(name, parseChildren(ts, p, {"endsection", "show"}, <<>>))
        named(parts) == node(parts, IF Len(parts) >= 1 THEN trimQuotes(parts[1]) ELSE <<>>)
    IN named(splitArgs(args))

parseYield(p, args) ==
    LET node(parts) ==
            PRes(p, [nt |-> "YIELD",
                     name |-> IF Len(parts) >= 1 THEN trimQuotes(parts[1]) ELSE <<>>,
                     default |-> IF Len(parts) >= 2 THEN trimQuotes(parts[2]) ELSE <<>>])
    IN node(splitArgs(args))

parsePush(ts, p, args, once) ==
    LET node(r) ==
            PRes(r.p, [nt |-> "PUSH", stack |-> trimQuotes(args), children |-> r.children,
                       once |-> once])
    IN node(parseSimpleBlock(ts, p, IF once THEN "endPushOnce" ELSE "endpush"))

parsePrepend(ts, p, args) ==
    LET node(r) ==
            PRes(r.p, [nt |-> "PREPEND", stack |-> trimQuotes(args), children |-> r.children])
    IN node(parseSimpleBlock(ts, p, "endprepend"))

\* Parser.parseOnce
parseOnce(ts, p) ==
    LET node(r) == PRes(r.p, [nt |-> "ONCE", children |-> r.children])
    IN node(parseSimpleBlock(ts, p, "endonce"))

\* the loop of Parser.parseVerbatim; [p, content]
RECURSIVE parseVerbatimLoop(_, _, _)
parseVerbatimLoop(ts, p, content) ==
    IF isAtEnd(ts, p) THEN [p |-> p, content |-> content]
    ELSE IF p.current.type = "VERBATIM_END" THEN [p |-> padvance(ts, p), content |-> content]
    ELSE parseVerbatimLoop(ts, padvance(ts, p),
                           IF p.current.type = "TEXT" THEN content \o p.current.value ELSE content)

parseVerbatim(ts, p) ==
    LET r == parseVerbatimLoop(ts, padvance(ts, p), <<>>)
    IN PRes(r.p, [nt |-> "VERBATIM", content |-> r.content])

\* the cases of a switch node once the loop has ended or a new clause begins
closeCase(node, cur) ==
    IF cur # NoNode THEN [node EXCEPT !.cases = Append(@, cur)] ELSE node

\* where Parser.parseSwitch puts a child: the default clause once there is one,
\* else the current case, else nowhere
addSwitchChild(node, cur, child) ==
    IF child = NoNode THEN [node |-> node, cur |-> cur]
    ELSE IF node.hasDefault
    THEN [node |-> [node EXCEPT !.defaultChildren = Append(@, child)], cur |-> cur]
    ELSE IF cur # NoNode
    THEN [node |-> node, cur |-> [cur EXCEPT !.children = Append(@, child)]]
    ELSE [node |-> node, cur |-> cur]

\* the loop of Parser.parseSwitch; cur is currentCase (NoNode for nil)
RECURSIVE parseSwitchLoop(_, _, _, _)
parseSwitchLoop(ts, p, node, cur) ==
    IF isAtEnd(ts, p) \/ isDirective(p, "endswitch")
    THEN PRes(IF isDirective(p, "endswitch") THEN padvance(ts, p) ELSE p,
              closeCase(node, cur))
    ELSE IF isDirective(p, "case")
    THEN parseSwitchLoop(ts, padvance(ts, p), closeCase(node, cur),
                         [nt |-> "CASE", value |-> p.current.args, children |-> <<>>])
    ELSE IF isDirective(p, "default")
    THEN parseSwitchLoop(ts, padvance(ts, p),
                         [closeCase(node, cur) EXCEPT !.hasDefault = TRUE,
                                                      !.defaultChildren = <<>>],
                         NoNode)
    ELSE IF isDirective(p, "break")
    THEN parseSwitchLoop(ts, padvance(ts, p), node, cur)
    ELSE LET put(r, a) == parseSwitchLoop(ts, r.p, a.node, a.cur)
             child(r) == put(r, addSwitchChild(node, cur, r.node))
         IN child(parseNode(ts, p))

\* Parser.parseSwitch
parseSwitch(ts, p, expression) ==
    parseSwitchLoop(ts, p, [nt |-> "SWITCH", expression |-> expression, cases |-> <<>>,
                            hasDefault |-> FALSE, defaultChildren |-> <<>>], NoNode)

\* directives of Parser.parseDirective that this model does not follow further
UnmodelledDirectives ==
    {"for", "while", "include", "includeIf", "includeWhen", "includeUnless",
     "includeFirst", "each", "component", "php", "isset", "empty", "auth", "guest", "env",
     "production", "error"}

\* Parser.parseDirective
parseDirective(ts, p0) ==
    LET name == Str(p0.current.value)
        args == p0.current.args
        p == padvance(ts, p0)
    IN CASE name = "if" -> parseIf(ts, p, args)
         [] name = "unless" ->
              LET node(r) ==
                      PRes(r.p, [nt |-> "UNLESS", condition |-> args, children |-> r.children])
              IN node(parseSimpleBlock(ts, p, "endunless"))
         [] name = "switch" -> parseSwitch(ts, p, args)
         [] name = "foreach" -> parseForeach(ts, p, args)
         [] name = "forelse" -> parseForelse(ts, p, args)
         [] name = "section" -> parseSection(ts, p, args)
         [] name = "yield" -> parseYield(p, args)
         [] name = "extends" -> PRes(p, [nt |-> "EXTENDS", template |-> trimQuotes(args)])
         [] name = "push" -> parsePush(ts, p, args, FALSE)
         [] name = "pushOnce" -> parsePush(ts, p, args, TRUE)
         [] name = "prepend" -> parsePrepend(ts, p, args)
         [] name = "once" -> parseOnce(ts, p)
         [] name = "stack" -> PRes(p, [nt |-> "STACK", name |-> trimQuotes(args)])
         [] name = "break" -> PRes(p, [nt |-> "BREAK", condition |-> args])
         [] name = "continue" -> PRes(p, [nt |-> "CONTINUE", condition |-> args])
         [] name = "parent" -> PRes(p, [nt |-> "PARENT"])
         [] name \in UnmodelledDirectives -> PRes(p, [nt |-> "UNMODELLED", name |-> name])
         [] OTHER -> PRes(p, [nt |-> "DIRECTIVE", name |-> name, args |-> args])

\* Parser.parseNode
parseNode(ts, p) ==
    LET token == p.current
    IN CASE token.type = "TEXT" -> PRes(padvance(ts, p), [nt |-> "TEXT", content |-> token.value])
         [] token.type = "ECHO_ESCAPED" ->
              PRes(padvance(ts, p), [nt |-> "ECHO", expression |-> token.value, escaped |-> TRUE])
         [] token.type = "ECHO_RAW" ->
              PRes(padvance(ts, p), [nt |-> "ECHO", expression |-> token.value, escaped |-> FALSE])
         [] token.type = "COMMENT" ->
              PRes(padvance(ts, p), [nt |-> "COMMENT", content |-> token.value])
         [] token.type \in {"DIRECTIVE", "DIRECTIVE_ARGS"} -> parseDirective(ts, p)
         [] token.type = "VERBATIM_START" -> parseVerbatim(ts, p)
         [] token.type = "EOF" -> PRes(p, NoNode)
         [] OTHER -> PRes(padvance(ts, p), NoNode)

\* Parser.Parse: the root's children (the Go code returns no error on any input)
Parse(ts) == parseChildren(ts, NewParser(ts), {}, <<>>).children

(***************************************************************************)
(* Compiler: AST -> compiled Go template (a sequence of items)             *)
(***************************************************************************)
\* One item of the compiled template.  k is the kind, and stands for the text
\* the compiler writes:
\*   "text"       the literal text x
\*   "echo"       {{ html x }} when flag, {{ x }} otherwise
\*   "if"         {{ if x }}, or {{ if not x }} when flag
\*   "elseif"     {{ else if x }}
\*   "else"       {{ else }}          "end"   {{ end }}
\*   "block"      {{ block "name" . }}
\*   "newloop"    {{ $__loop<num> := newLoop (len x) <num> }}
\*   "range"      {{ range $__idx<num>, $<name> := x }} when y is "_",
\*                {{ range $<y>, $<name> := x }} otherwise
\*   "loopupdate" {{ $loop := $__loop<num>.Update $__idx<num> }} when y is "_",
\*                {{ $loop := $__loop<num>.Update $<y> }} otherwise
\*   "call"       {{ name x }}        (a function call: stack, a custom directive)
\*   "parent"     {{__PARENT__}}
\*   "break"      {{ break }}         "continue"  {{ continue }}
Item(k, x, y, name, num, flag) ==
    [k |-> k, x |-> x, y |-> y, name |-> name, num |-> num, flag |-> flag]

TextItem(chars) == Item("text", chars, <<>>, "", 0, FALSE)
EndItem == Item("end", <<>>, <<>>, "", 0, FALSE)
ElseItem == Item("else", <<>>, <<>>, "", 0, FALSE)
ParentMarker == Item("parent", <<>>, <<>>, "", 0, FALSE)
BlockItem(name) == Item("block", <<>>, <<>>, name, 0, FALSE)
IfItem(cond, negated) == Item("if", cond, <<>>, "", 0, negated)

\* a raw string the compiler copies into its output (text tokens, inline
\* section content, a yield's default): the empty string adds nothing
RawItems(chars) == IF chars = <<>> THEN <<>> ELSE <<TextItem(chars)>>

IsIdentStart(ch) == IsLetter(ch) \/ ch = "_"
IsIdentChar(ch) == IsLetter(ch) \/ IsDigit(ch) \/ ch = "_"

\* regexp \$([a-zA-Z_][a-zA-Z0-9_]*) replaced by .$1
RECURSIVE DollarToDot(_)
DollarToDot(s) ==
    IF s = <<>> THEN <<>>
    ELSE IF s[1] = "$" /\ Len(s) >= 2 /\ IsIdentStart(s[2])
         THEN <<".">> \o DollarToDot(Tail(s))
         ELSE <<s[1]>> \o DollarToDot(Tail(s))

\* the end (exclusive, 1-based) of the identifier starting at i
RECURSIVE IdentEnd(_, _)
IdentEnd(s, i) == IF i <= Len(s) /\ IsIdentChar(s[i]) THEN IdentEnd(s, i + 1) ELSE i

\* the end (exclusive, 1-based) of the run of characters other than quotes starting at i
RECURSIVE KeyEnd(_, _)
KeyEnd(s, i) == IF i <= Len(s) /\ s[i] \notin {"'", "\""} THEN KeyEnd(s, i + 1) ELSE i

\* regexp \.([a-zA-Z_][a-zA-Z0-9_]*)\[['"]([^'"]+)['"]\] replaced by (index .$1 "$2")
RECURSIVE ArrayAccess(_)
ArrayAccess(s) ==
    IF s = <<>> THEN <<>>
    ELSE LET e == IF s[1] = "." /\ Len(s) >= 2 /\ IsIdentStart(s[2]) THEN IdentEnd(s, 2) ELSE 0
             q == IF e > 0 /\ e + 1 <= Len(s) /\ s[e] = "[" /\ s[e + 1] \in {"'", "\""}
                  THEN KeyEnd(s, e + 2) ELSE 0
             hit == /\ q > e + 2
                    /\ q + 1 <= Len(s)
                    /\ s[q] \in {"'", "\""}
                    /\ s[q + 1] = "]"
         IN IF hit
            THEN <<"(","i","n","d","e","x"," ",".">> \o SubSeq(s, 2, e - 1) \o <<" ", "\"">>
                 \o SubSeq(s, e + 2, q - 1) \o <<"\"", ")">>
                 \o ArrayAccess(SubSeq(s, q + 2, Len(s)))
            ELSE <<s[1]>> \o ArrayAccess(Tail(s))

\* regexp !([^=]) replaced by "not $1"
RECURSIVE BangToNot(_)
BangToNot(s) ==
    IF s = <<>> THEN <<>>
    ELSE IF s[1] = "!" /\ Len(s) >= 2 /\ s[2] # "="
         THEN <<"n","o","t"," ", s[2]>> \o BangToNot(SubSeq(s, 3, Len(s)))
         ELSE <<s[1]>> \o BangToNot(Tail(s))

\* regexp \s+ replaced by one space
RECURSIVE SquashSpaces(_)
SquashSpaces(s) ==
    IF s = <<>> THEN <<>>
    ELSE IF IsSpace(s[1])
         THEN <<" ">> \o SquashSpaces(TrimLeft(s))
         ELSE <<s[1]>> \o SquashSpaces(Tail(s))

\* the replacements of Compiler.transformExpression for !==, !=, === and ==
Equality(e) ==
    ReplaceAll(ReplaceAll(ReplaceAll(ReplaceAll(e,
        <<"!","=","=">>, <<" ","n","e"," ">>),
        <<"!","=">>, <<" ","n","e"," ">>),
        <<"=","=","=">>, <<" ","e","q"," ">>),
        <<"=","=">>, <<" ","e","q"," ">>)

\* the replacements for && and ||
Logic(e) ==
    ReplaceAll(ReplaceAll(e,
        <<"&","&">>, <<" ","a","n","d"," ">>),
        <<"|","|">>, <<" ","o","r"," ">>)

\* the replacements for >=, <=, > and <
Comparison(e) ==
    ReplaceAll(ReplaceAll(ReplaceAll(ReplaceAll(e,
        <<">","=">>, <<" ","g","t","e"," ">>),
        <<"<","=">>, <<" ","l","t","e"," ">>),
        <<">">>, <<" ","g","t"," ">>),
        <<"<">>, <<" ","l","t"," ">>)

\* Compiler.transformExpression: each line of the function, innermost first
transformExpression(expr) ==
    TrimSpace(SquashSpaces(Comparison(BangToNot(Logic(Equality(
        ArrayAccess(ReplaceAll(DollarToDot(TrimSpace(expr)), <<"-", ">">>, <<".">>))))))))

\* strings.TrimPrefix(s, "$")
TrimDollar(s) == IF s # <<>> /\ s[1] = "$" THEN Tail(s) ELSE s

\* a Go map with string keys, as a function; m[k] = v
MapSet(m, k, v) == [x \in DOMAIN m \cup {k} |-> IF x = k THEN v ELSE m[x]]
\* m[k] of a map of slices: nil (the empty sequence) when the key is missing
MapGetSeq(m, k) == IF k \in DOMAIN m THEN m[k] ELSE <<>>
EmptyMap == [x \in {} |-> <<>>]

\* compiler.New.  out is the strings.Builder the compiled text is written to:
\* every compile function below takes the compiler with the text written so far
\* and returns it with its own output appended
NewCompiler ==
    [out |-> <<>>, extends |-> <<>>, sections |-> EmptyMap, parentCalls |-> {},
     pushes |-> EmptyMap, prepends |-> EmptyMap, loopDepth |-> 0, onceKeys |-> {}]

\* result.WriteString(items)
write(c, items) == [c EXCEPT !.out = @ \o items]

\* a fresh strings.Builder, for a block whose compiled children are stored
sub(c) == [c EXCEPT !.out = <<>>]

\* the words html/template reads as the start of a control action
GoKeywords ==
    {"if", "else", "end", "range", "with", "define", "template", "block", "break", "continue"}

\* the first word of an action's text
FirstWord(x) == Str(SubSeq(x, 1, IdentEnd(x, 1) - 1))

\* the item for an action "{{ x }}" that the compiler writes from template text:
\* {{ end }} and {{ else }} are the end and else actions whoever wrote them
ActionItem(x, item) ==
    IF x = <<"e", "n", "d">> THEN <<EndItem>>
    ELSE IF x = <<"e", "l", "s", "e">> THEN <<ElseItem>>
    ELSE IF x # <<>> /\ IsIdentStart(x[1]) /\ FirstWord(x) \in GoKeywords
    THEN <<Item("unmodelled", x, <<>>, "keyword", 0, FALSE)>>
    ELSE item

\* the action of an echo whose transformed expression is x
EchoAction(x, escaped) ==
    IF escaped THEN <<Item("echo", x, <<>>, "", 0, TRUE)>>
    ELSE ActionItem(x, <<Item("echo", x, <<>>, "", 0, FALSE)>>)

\* Compiler.compileEcho
compileEcho(n) == EchoAction(transformExpression(n.expression), n.escaped)

\* the three actions that open a compiled foreach/forelse loop
LoopActions(items, key, value, depth) ==
    << Item("newloop", items, <<>>, "", depth, FALSE),
       Item("range", items, key, Str(value), depth, FALSE),
       Item("loopupdate", <<>>, key, "", depth, FALSE) >>

LoopHead(n, depth) ==
    LoopActions(transformExpression(n.items),
                TrimDollar(IF n.key = <<>> THEN <<"_">> ELSE n.key),
                TrimDollar(n.value), depth)

\* c.loopDepth++ and the deferred c.loopDepth--
enterLoop(c) == [c EXCEPT !.loopDepth = @ + 1]
leaveLoop(c) == [c EXCEPT !.loopDepth = @ - 1]
writeLoopHead(n, c) == write(c, LoopHead(n, c.loopDepth))

RECURSIVE compileNode(_, _)
RECURSIVE compileChildren(_, _)
\* Compiler.compileChildren (and the loop of Compiler.Compile)
compileChildren(children, c) ==
    IF children = <<>> THEN c
    ELSE compileChildren(Tail(children), compileNode(children[1], c))

\* the elseif clauses of Compiler.compileIf
RECURSIVE compileElseIfs(_, _)
compileElseIfs(elseIfs, c) ==
    IF elseIfs = <<>> THEN c
    ELSE compileElseIfs(Tail(elseIfs),
             compileChildren(elseIfs[1].children,
                 write(c, <<Item("elseif", transformExpression(elseIfs[1].condition),
                                 <<>>, "", 0, FALSE)>>)))

\* the else clause of Compiler.compileIf
compileElse(n, c) ==
    IF n.hasElse THEN compileChildren(n.elseChildren, write(c, <<ElseItem>>)) ELSE c

\* Compiler.compileIf with the @else branch left out
compileIfWithoutElse(n, c) ==
    write(compileElseIfs(n.elseIfs,
              compileChildren(n.children,
                  write(c, <<IfItem(transformExpression(n.condition), FALSE)>>))),
          <<EndItem>>)

\* Compiler.compileIf
compileIf(n, c) ==
    write(compileElse(n,
              compileElseIfs(n.elseIfs,
                  compileChildren(n.children,
                      write(c, <<IfItem(transformExpression(n.condition), FALSE)>>)))),
          <<EndItem>>)

\* the action that opens the i-th case of a switch on expr
CaseAction(expr, n, i) ==
    LET cond == <<"e", "q", " ">> \o expr \o <<" ">> \o transformExpression(n.value)
    IN IF i = 1 THEN IfItem(cond, FALSE) ELSE Item("elseif", cond, <<>>, "", 0, FALSE)

\* the loop over n.Cases of Compiler.compileSwitch
RECURSIVE compileCases(_, _, _, _)
compileCases(expr, cases, i, c) ==
    IF i > Len(cases) THEN c
    ELSE compileCases(expr, cases, i + 1,
             compileChildren(cases[i].children, write(c, <<CaseAction(expr, cases[i], i)>>)))

\* the default clause of Compiler.compileSwitch
compileDefault(n, c) ==
    IF n.hasDefault THEN compileChildren(n.defaultChildren, write(c, <<ElseItem>>)) ELSE c

\* Compiler.compileSwitch
compileSwitch(n, c) ==
    LET close(r) ==
            IF Len(n.cases) > 0 \/ n.hasDefault THEN write(r, <<EndItem>>) ELSE r
    IN close(compileDefault(n,
                 compileCases(transformExpression(n.expression), n.cases, 1, c)))

\* Compiler.compileUnless
compileUnless(n, c) ==
    write(compileChildren(n.children,
              write(c, <<IfItem(transformExpression(n.condition), TRUE)>>)),
          <<EndItem>>)

\* Compiler.compileForeach
compileForeach(n, c) ==
    leaveLoop(write(compileChildren(n.children, writeLoopHead(n, enterLoop(c))),
                    <<EndItem>>))

\* Compiler.compileForelse
compileForelse(n, c) ==
    leaveLoop(
        write(compileChildren(n.empty,
                  write(compileChildren(n.children,
                            writeLoopHead(n,
                                write(enterLoop(c),
                                      <<IfItem(transformExpression(n.items), FALSE)>>))),
                        <<EndItem, ElseItem>>)),
              <<EndItem>>))

HasParentMarker(items) == \E i \in 1..Len(items) : items[i] = ParentMarker

\* Compiler.compileSection after its children are compiled: out is the text
\* written before the section, r the compiler holding the children's text
storeSection(n, out, r) ==
    [r EXCEPT !.out = out \o (IF n.show
                              THEN <<BlockItem(Str(n.name))>> \o r.out \o <<EndItem>>
                              ELSE <<>>),
              !.parentCalls = IF HasParentMarker(r.out) THEN @ \cup {Str(n.name)} ELSE @,
              !.sections = MapSet(@, Str(n.name), r.out)]

\* Compiler.compileSection
compileSection(n, c) ==
    IF n.content # <<>>
    THEN [c EXCEPT !.sections = MapSet(@, Str(n.name), RawItems(n.content))]
    ELSE storeSection(n, c.out, compileChildren(n.children, sub(c)))

\* Compiler.compileYield
compileYield(n) == <<BlockItem(Str(n.name))>> \o RawItems(n.default) \o <<EndItem>>

\* a compiled text as fmt.Sprintf("%s") writes it into a key: the characters
\* of its literal text, and its actions one by one
RECURSIVE KeyText(_)
KeyText(items) ==
    IF items = <<>> THEN <<>>
    ELSE (IF items[1].k = "text" THEN items[1].x ELSE <<items[1]>>) \o KeyText(Tail(items))

\* fmt.Sprintf("push_%s_%s", n.Stack, children)
PushKey(stack, children) ==
    <<"p", "u", "s", "h", "_">> \o stack \o <<"_">> \o KeyText(children)

\* fmt.Sprintf("once_%s", children)
OnceKey(children) == <<"o", "n", "c", "e", "_">> \o KeyText(children)

\* Compiler.compilePush after its children are compiled
storePush(n, out, r) ==
    LET key == PushKey(n.stack, r.out)
    IN IF n.once /\ key \in r.onceKeys
       THEN [r EXCEPT !.out = out]
       ELSE [r EXCEPT !.out = out,
                      !.onceKeys = IF n.once THEN @ \cup {key} ELSE @,
                      !.pushes = MapSet(@, Str(n.stack),
                                        Append(MapGetSeq(@, Str(n.stack)), r.out))]

\* Compiler.compilePush
compilePush(n, c) == storePush(n, c.out, compileChildren(n.children, sub(c)))

\* Compiler.compileOnce after its children are compiled
storeOnce(out, r) ==
    IF OnceKey(r.out) \in r.onceKeys
    THEN [r EXCEPT !.out = out]
    ELSE [r EXCEPT !.out = out \o r.out, !.onceKeys = @ \cup {OnceKey(r.out)}]

\* Compiler.compileOnce
compileOnce(n, c) == storeOnce(c.out, compileChildren(n.children, sub(c)))

\* Compiler.compilePrepend after its children are compiled
storePrepend(n, out, r) ==
    [r EXCEPT !.out = out,
              !.prepends = MapSet(@, Str(n.stack), <<r.out>> \o MapGetSeq(@, Str(n.stack)))]

\* Compiler.compilePrepend
compilePrepend(n, c) == storePrepend(n, c.out, compileChildren(n.children, sub(c)))

\* Compiler.compileStack
compileStack(n) == <<Item("call", <<"\"">> \o n.name \o <<"\"">>, <<>>, "stack", 0, FALSE)>>

\* Compiler.compileBreak and Compiler.compileContinue
compileBreak(n, kind) ==
    IF n.condition # <<>>
    THEN <<IfItem(transformExpression(n.condition), FALSE),
           Item(kind, <<>>, <<>>, "", 0, FALSE), EndItem>>
    ELSE <<Item(kind, <<>>, <<>>, "", 0, FALSE)>>

\* the built-in directives of Compiler.compileDirective that this model does not follow
UnmodelledSimpleDirectives ==
    {"csrf", "method", "json", "class", "style", "checked", "selected", "disabled",
     "readonly", "required", "old"}

\* Compiler.compileDirective: a custom directive is called as a function
compileDirective(n) ==
    IF n.name \in UnmodelledSimpleDirectives
    THEN <<Item("unmodelled", <<>>, <<>>, n.name, 0, FALSE)>>
    ELSE IF n.args = <<>> /\ n.name \in {"end", "else"}
    THEN IF n.name = "end" THEN <<EndItem>> ELSE <<ElseItem>>
    ELSE IF n.name \in GoKeywords
    THEN <<Item("unmodelled", <<>>, <<>>, n.name, 0, FALSE)>>
    ELSE <<Item("call", IF n.args # <<>> THEN transformExpression(n.args) ELSE <<>>,
                <<>>, n.name, 0, FALSE)>>

\* Compiler.compileNode
compileNode(n, c) ==
    CASE n.nt = "TEXT" -> write(c, RawItems(n.content))
      [] n.nt = "ECHO" -> write(c, compileEcho(n))
      [] n.nt = "COMMENT" -> c
      [] n.nt = "DIRECTIVE" -> write(c, compileDirective(n))
      [] n.nt = "IF" -> compileIf(n, c)
      [] n.nt = "UNLESS" -> compileUnless(n, c)
      [] n.nt = "SWITCH" -> compileSwitch(n, c)
      [] n.nt = "FOREACH" -> compileForeach(n, c)
      [] n.nt = "FORELSE" -> compileForelse(n, c)
      [] n.nt = "SECTION" -> compileSection(n, c)
      [] n.nt = "YIELD" -> write(c, compileYield(n))
      [] n.nt = "EXTENDS" -> [c EXCEPT !.extends = n.template]
      [] n.nt = "PUSH" -> compilePush(n, c)
      [] n.nt = "PREPEND" -> compilePrepend(n, c)
      [] n.nt = "ONCE" -> compileOnce(n, c)
      [] n.nt = "STACK" -> write(c, compileStack(n))
      [] n.nt = "VERBATIM" -> write(c, RawItems(n.content))
      [] n.nt = "BREAK" -> write(c, compileBreak(n, "break"))
      [] n.nt = "CONTINUE" -> write(c, compileBreak(n, "continue"))
      [] n.nt = "PARENT" -> write(c, <<ParentMarker>>)
      [] OTHER -> write(c, <<Item("unmodelled", <<>>, <<>>, n.nt, 0, FALSE)>>)

\* Compiler.Compile
Compile(root) == compileChildren(root, NewCompiler)

\* what Engine.compile returns for a compiled template: [compiled, extends, sections, err]
Compiled(c) == [compiled |-> c.out, extends |-> c.extends, sections |-> c.sections, err |-> ""]

\* Engine.compile after lexer.Tokenize
compileTokens(lexed) ==
    IF lexed.err # NoError
    THEN [compiled |-> <<>>, extends |-> <<>>, sections |-> EmptyMap, err |-> "lexer error"]
    ELSE Compiled(Compile(Parse(lexed.tokens)))

\* Engine.compile; processStacks returns its argument unchanged
compile(content) == compileTokens(Tokenize(content))

\* ---------------------------------------------------------------------------
\* Values the templates are executed on (the interface{} values of the data map)
\* ---------------------------------------------------------------------------
VStr(chars) == [t |-> "str", s |-> chars]
VInt(n) == [t |-> "int", n |-> n]
VBool(b) == [t |-> "bool", b |-> b]
VNil == [t |-> "nil"]
VList(l) == [t |-> "list", l |-> l]
VMap(m) == [t |-> "map", m |-> m]
VLoop(r) == [t |-> "loop", r |-> r]

\* the nil *Loop
NoLoop == [nil |-> TRUE]

\* runtime.NewLoop
NewLoop(count, depth) ==
    [Index |-> -1, Iteration |-> 0, Remaining |-> count, Count |-> count,
     First |-> TRUE, Last |-> (count = 1), Even |-> FALSE, Odd |-> TRUE,
     Depth |-> depth, Parent |-> NoLoop]

\* Go's int, scaled from 64 bits to IntBits: two's complement, wrapping
IntBits == 4
MinInt == -(2 ^ (IntBits - 1))
MaxInt == 2 ^ (IntBits - 1) - 1
IntRange == MinInt..MaxInt
Wrap(x) == ((x - MinInt) % (2 ^ IntBits)) + MinInt
\* Go's a % b for b > 0: the remainder has the sign of a
GoRem(a, b) == IF a >= 0 THEN a % b ELSE -((-a) % b)

\* Loop.Update: a new record for the given index, with Count, Depth and Parent copied
Update(l, index) ==
    [Index |-> index, Iteration |-> Wrap(index + 1),
     Remaining |-> IF l.Count >= 0 THEN Wrap(l.Count - index - 1) ELSE -1,
     Count |-> l.Count, First |-> (index = 0),
     Last |-> IF l.Count >= 0 THEN index = Wrap(l.Count - 1) ELSE FALSE,
     Even |-> (GoRem(Wrap(index + 1), 2) = 0), Odd |-> (GoRem(Wrap(index + 1), 2) = 1),
     Depth |-> l.Depth, Parent |-> l.Parent]

\* the names of the functions DefaultFunctions registers
DefaultFunctions ==
    {"upper", "lower", "title", "trim", "ltrim", "rtrim", "replace", "contains",
     "hasPrefix", "hasSuffix", "split", "join", "repeat", "substr", "length", "ucfirst",
     "lcfirst", "slug", "limit", "wordLimit", "html", "htmlAttr", "js", "url", "safeHTML",
     "safeJS", "safeURL", "safeCSS", "first", "last", "reverse", "sortAsc", "sortDesc",
     "unique", "pluck", "where", "groupBy", "chunk", "flatten", "slice", "append",
     "prepend", "merge", "dict", "set", "unset", "keys", "values", "hasKey", "add", "sub",
     "mul", "div", "mod", "round", "floor", "ceil", "abs", "min", "max", "currency",
     "number", "percent", "date", "now", "ago", "diff", "addDate", "subDate", "timestamp",
     "eq", "ne", "lt", "gt", "lte", "gte", "and", "or", "not", "default", "isset", "empty",
     "dump", "json", "jsonDec", "seq", "until", "index", "printf", "print", "coalesce",
     "ternary", "typeof", "toInt", "toFloat", "toString", "toBool", "newLoop", "hasError",
     "getError", "classArray", "styleArray"}

\* toBoolValue, the truth test of the registered "not", "and" and "or"
toBoolValue(v) ==
    CASE v.t = "nil" -> FALSE
      [] v.t = "bool" -> v.b
      [] v.t = "int" -> v.n # 0
      [] v.t = "str" -> v.s # <<>> /\ v.s # <<"0">> /\ v.s # <<"f", "a", "l", "s", "e">>
      [] v.t = "list" -> v.l # <<>>
      [] v.t = "map" -> DOMAIN v.m # {}
      [] v.t = "loop" -> v.r # NoLoop
      [] OTHER -> TRUE

\* Engine.prepareData: the data map with the __stacks entry added (no shared data)
prepareData(data) == VMap(MapSet(data, "__stacks", VMap(EmptyMap)))

\* ---------------------------------------------------------------------------
\* template.New(...).Funcs(e.functions).Parse(compiled): the compiled actions
\* become a tree, or a parse error
\* ---------------------------------------------------------------------------
\* the functions html/template predefines besides the registered ones
GoBuiltinFunctions ==
    {"and", "call", "html", "index", "slice", "js", "len", "not", "or", "print", "printf",
     "println", "urlquery", "eq", "ge", "gt", "le", "lt", "ne"}

FuncDefined(name) == name \in DefaultFunctions \cup GoBuiltinFunctions

\* the field names of a chain such as .a.b ; <<>> for the dot itself
RECURSIVE FieldNames(_)
FieldNames(s) ==
    IF s = <<>> THEN <<>>
    ELSE LET e == IdentEnd(s, 2)
         IN <<Str(SubSeq(s, 2, e - 1))>> \o FieldNames(SubSeq(s, e, Len(s)))

\* is the expression the dot or a chain of fields of the dot
RECURSIVE IsFieldChainFrom(_, _)
IsFieldChainFrom(s, i) ==
    IF i > Len(s) THEN TRUE
    ELSE /\ s[i] = "."
         /\ i + 1 <= Len(s)
         /\ IsIdentStart(s[i + 1])
         /\ IsFieldChainFrom(s, IdentEnd(s, i + 1))

IsFieldChain(s) == s = <<".">> \/ (s # <<>> /\ IsFieldChainFrom(s, 1))

ExprPath(s) == IF s = <<".">> THEN <<>> ELSE FieldNames(s)

\* ---------------------------------------------------------------------------
\* text/template's lexer on the literal text of the compiled template: text
\* the compiler copied (a verbatim block, an inline section, a default) is
\* scanned for "{{" like the rest
\* ---------------------------------------------------------------------------
\* adjacent literal texts are one text in the compiled string
RECURSIVE MergeText(_)
MergeText(items) ==
    IF Len(items) < 2 THEN items
    ELSE IF items[1].k = "text" /\ items[2].k = "text"
    THEN MergeText(<<TextItem(items[1].x \o items[2].x)>> \o SubSeq(items, 3, Len(items)))
    ELSE <<items[1]>> \o MergeText(Tail(items))

IsNumber(t) == t # <<>> /\ \A i \in 1..Len(t) : IsDigit(t[i])
IsIdentifier(t) == t # <<>> /\ IsIdentStart(t[1]) /\ \A i \in 1..Len(t) : IsIdentChar(t[i])

\* the action "{{ t }}" found in literal text, t trimmed: a field chain is
\* printed, a number is printed, an identifier is a function call, $name is a
\* variable that nothing declared
TextAction(t) ==
    IF t = <<>> THEN <<Item("error", <<>>, <<>>, "missing value for command", 0, FALSE)>>
    ELSE ActionItem(t,
        IF IsFieldChain(t) THEN <<Item("echo", t, <<>>, "", 0, FALSE)>>
        ELSE IF IsNumber(t) THEN <<Item("number", t, <<>>, "", 0, FALSE)>>
        ELSE IF IsIdentifier(t)
        THEN IF FuncDefined(Str(t)) THEN <<Item("unmodelled", t, <<>>, "function", 0, FALSE)>>
             ELSE <<Item("call", <<>>, <<>>, Str(t), 0, FALSE)>>
        ELSE IF t[1] = "$" /\ IsIdentifier(Tail(t))
        THEN <<Item("error", t, <<>>, "undefined variable", 0, FALSE)>>
        ELSE <<Item("unmodelled", t, <<>>, "action", 0, FALSE)>>)

\* lexText / lexLeftDelim / lexInsideAction on one literal text
RECURSIVE LexText(_)
LexText(chars) ==
    LET opened(i) ==
            IF i < 0 THEN RawItems(chars)
            ELSE LET closed(j) ==
                         IF j < 0
                         THEN RawItems(Slice(chars, 0, i))
                              \o <<Item("error", <<>>, <<>>, "unclosed action", 0, FALSE)>>
                         ELSE RawItems(Slice(chars, 0, i))
                              \o TextAction(TrimSpace(Slice(chars, i + 2, i + 2 + j)))
                              \o LexText(Slice(chars, i + 2 + j + 2, Len(chars)))
                 IN closed(IndexOf(Slice(chars, i + 2, Len(chars)), <<"}", "}">>))
    IN opened(IndexOf(chars, <<"{", "{">>))

RECURSIVE LexItems(_)
LexItems(items) ==
    IF items = <<>> THEN <<>>
    ELSE (IF items[1].k = "text" THEN LexText(items[1].x) ELSE <<items[1]>>)
         \o LexItems(Tail(items))

\* a parsed list: the nodes, the index of the action that ended it, and an error
TRes(nodes, i, term, err) == [nodes |-> nodes, i |-> i, term |-> term, err |-> err]

RECURSIVE itemList(_, _, _, _)
RECURSIVE parseControl(_, _, _)
\* parse.Tree.parseControl for if (and else-if chains), range and block
parseControl(items, i, rd) ==
    LET it == items[i]
        body == itemList(items, i + 1, <<>>,
                         IF it.k = "range" THEN rd + 1 ELSE IF it.k = "block" THEN 0 ELSE rd)
        node(els) == [k |-> IF it.k = "elseif" THEN "if" ELSE it.k, x |-> it.x, y |-> it.y,
                      name |-> it.name, num |-> it.num, flag |-> it.flag,
                      body |-> body.nodes, els |-> els]
    IN IF body.err # "" THEN [node |-> node(<<>>), next |-> body.i, err |-> body.err]
       ELSE IF body.term = "eof"
       THEN [node |-> node(<<>>), next |-> body.i, err |-> "unexpected EOF"]
       ELSE IF body.term = "end"
       THEN [node |-> node(<<>>), next |-> body.i + 1, err |-> ""]
       ELSE IF it.k = "block"
       THEN [node |-> node(<<>>), next |-> body.i, err |-> "unexpected else in block"]
       ELSE IF body.term = "elseif"
       THEN IF it.k = "range"
            THEN [node |-> node(<<>>), next |-> body.i, err |-> "unexpected if in range"]
            ELSE LET nested == parseControl(items, body.i, rd)
                 IN [node |-> node(<<nested.node>>), next |-> nested.next, err |-> nested.err]
       ELSE LET els == itemList(items, body.i + 1, <<>>, rd)
            IN IF els.err # "" THEN [node |-> node(<<>>), next |-> els.i, err |-> els.err]
               ELSE IF els.term # "end"
               THEN [node |-> node(<<>>), next |-> els.i, err |-> "expected end"]
               ELSE [node |-> node(els.nodes), next |-> els.i + 1, err |-> ""]

\* parse.Tree.itemList: nodes up to the next end or else action
itemList(items, i, acc, rd) ==
    IF i > Len(items) THEN TRes(acc, i, "eof", "")
    ELSE LET it == items[i]
             control(r) ==
                 IF r.err # "" THEN TRes(acc, r.next, "err", r.err)
                 ELSE itemList(items, r.next, Append(acc, r.node), rd)
         IN CASE it.k \in {"end", "else", "elseif"} -> TRes(acc, i, it.k, "")
              [] it.k \in {"if", "range", "block"} -> control(parseControl(items, i, rd))
              [] it.k \in {"break", "continue"} ->
                    IF rd = 0 THEN TRes(acc, i, "err", "break outside range")
                    ELSE itemList(items, i + 1, Append(acc, it), rd)
              [] it.k = "call" ->
                    IF FuncDefined(it.name) THEN itemList(items, i + 1, Append(acc, it), rd)
                    ELSE TRes(acc, i, "err", "function not defined")
              [] it.k = "parent" -> TRes(acc, i, "err", "function not defined")
              [] it.k = "error" -> TRes(acc, i, "err", it.name)
              [] it.k = "unmodelled" -> TRes(acc, i, "err", "unmodelled")
              [] OTHER -> itemList(items, i + 1, Append(acc, it), rd)

\* parse.IsEmptyTree: nothing but white space
IsEmptyTree(nodes) ==
    \A i \in 1..Len(nodes) : nodes[i].k = "text" /\ TrimSpace(nodes[i].x) = <<>>

\* the templates the block actions of a tree define, in source order
RECURSIVE BlockDefs(_)
BlockDefs(nodes) ==
    IF nodes = <<>> THEN <<>>
    ELSE LET n == nodes[1]
         IN (IF n.k = "block" THEN <<[name |-> n.name, body |-> n.body]>> ELSE <<>>)
            \o (IF n.k \in {"if", "range", "block"}
                THEN BlockDefs(n.body) \o BlockDefs(n.els) ELSE <<>>)
            \o BlockDefs(Tail(nodes))

\* parse.Tree.add: a second non-empty definition of a name is an error
MultipleDefinition(defs) ==
    \E i, j \in 1..Len(defs) :
        /\ i < j
        /\ defs[i].name = defs[j].name
        /\ ~IsEmptyTree(defs[i].body)
        /\ ~IsEmptyTree(defs[j].body)

\* the body a name is bound to: the non-empty definition if there is one
DefBody(defs, name) ==
    LET full == {i \in 1..Len(defs) : defs[i].name = name /\ ~IsEmptyTree(defs[i].body)}
        any == {i \in 1..Len(defs) : defs[i].name = name}
    IN IF full # {} THEN defs[CHOOSE i \in full : TRUE].body
       ELSE defs[CHOOSE i \in any : \A j \in any : i <= j].body

\* Template.Parse: [tree, defs, err]
ParseTemplate(items) ==
    LET define(r, defs) ==
            IF r.err # "" THEN [tree |-> <<>>, defs |-> <<>>, err |-> r.err]
            ELSE IF r.term # "eof"
            THEN [tree |-> <<>>, defs |-> <<>>, err |-> "unexpected end"]
            ELSE IF MultipleDefinition(defs)
            THEN [tree |-> <<>>, defs |-> <<>>, err |-> "multiple definition"]
            ELSE [tree |-> r.nodes, defs |-> defs, err |-> ""]
        parsed(r) == define(r, BlockDefs(r.nodes))
    IN parsed(itemList(LexItems(MergeText(items)), 1, <<>>, 0))

\* ---------------------------------------------------------------------------
\* html/template: contextual escaping of the text and of the printed values
\* ---------------------------------------------------------------------------
\* does a tag, a comment or a doctype start at s[i] = "<"
TagStartsAt(s, i) ==
    \/ (i + 1 <= Len(s) /\ IsLetter(s[i + 1]))
    \/ (i + 2 <= Len(s) /\ s[i + 1] = "/" /\ IsLetter(s[i + 2]))
    \/ (i + 1 <= Len(s) /\ s[i + 1] = "!")

\* does the text stay in the HTML text context
IsPlainHtmlText(s) == \A i \in 1..Len(s) : s[i] = "<" => ~TagStartsAt(s, i)

\* escaper.escapeText in the text context: a "<" that opens no tag becomes &lt;
EscapeText(s) == ReplaceAll(s, <<"<">>, <<"&", "l", "t", ";">>)

RECURSIVE MapChars(_, _)
MapChars(s, f) ==
    IF s = <<>> THEN <<>>
    ELSE (IF Head(s) \in DOMAIN f THEN f[Head(s)] ELSE <<Head(s)>>) \o MapChars(Tail(s), f)

\* template.HTMLEscapeString, the registered "html" function
HTMLEscapeString(s) ==
    MapChars(s, [c \in {"<", ">", "&", "'", "\""} |->
        CASE c = "<" -> <<"&", "l", "t", ";">>
          [] c = ">" -> <<"&", "g", "t", ";">>
          [] c = "&" -> <<"&", "a", "m", "p", ";">>
          [] c = "'" -> <<"&", "#", "3", "9", ";">>
          [] c = "\"" -> <<"&", "#", "3", "4", ";">>])

\* _html_template_htmlescaper, which html/template appends to a pipeline in
\* the text context
HtmlEscaper(s) ==
    MapChars(s, [c \in {"<", ">", "&", "'", "\"", "+"} |->
        CASE c = "<" -> <<"&", "l", "t", ";">>
          [] c = ">" -> <<"&", "g", "t", ";">>
          [] c = "&" -> <<"&", "a", "m", "p", ";">>
          [] c = "'" -> <<"&", "#", "3", "9", ";">>
          [] c = "\"" -> <<"&", "#", "3", "4", ";">>
          [] c = "+" -> <<"&", "#", "4", "3", ";">>])

RECURSIVE NatChars(_)
NatChars(n) ==
    LET d == <<"0", "1", "2", "3", "4", "5", "6", "7", "8", "9">>[(n % 10) + 1]
    IN IF n < 10 THEN <<d>> ELSE Append(NatChars(n \div 10), d)

\* fmt.Sprint of a scalar
Sprint(v) ==
    CASE v.t = "str" -> v.s
      [] v.t = "int" -> IF v.n < 0 THEN <<"-">> \o NatChars(-v.n) ELSE NatChars(v.n)
      [] v.t = "bool" -> IF v.b THEN <<"t", "r", "u", "e">> ELSE <<"f", "a", "l", "s", "e">>

IsScalar(v) == v.t \in {"str", "int", "bool"}

\* ---------------------------------------------------------------------------
\* Template.Execute
\* ---------------------------------------------------------------------------
LoopFields ==
    {"Index", "Iteration", "Remaining", "Count", "First", "Last", "Even", "Odd", "Depth",
     "Parent"}

\* one field of a value: [v, err]
evalField(v, name) ==
    CASE v.t = "map" ->
            [v |-> IF name \in DOMAIN v.m THEN v.m[name] ELSE VNil, err |-> ""]
      [] v.t = "loop" /\ v.r # NoLoop /\ name \in LoopFields ->
            [v |-> CASE name \in {"First", "Last", "Even", "Odd"} -> VBool(v.r[name])
                     [] name = "Parent" -> VLoop(v.r.Parent)
                     [] OTHER -> VInt(v.r[name]),
             err |-> ""]
      [] v.t \in {"nil", "loop"} -> [v |-> VNil, err |-> "nil pointer evaluating"]
      [] OTHER -> [v |-> VNil, err |-> "can't evaluate field"]

RECURSIVE evalPath(_, _)
evalPath(v, path) ==
    IF path = <<>> THEN [v |-> v, err |-> ""]
    ELSE LET r == evalField(v, Head(path))
         IN IF r.err # "" THEN r ELSE evalPath(r.v, Tail(path))

\* a pipeline of the compiled template, evaluated on the dot
evalExpr(x, dot) ==
    IF IsFieldChain(x) THEN evalPath(dot, ExprPath(x))
    ELSE [v |-> VNil, err |-> "unmodelled"]

\* template.IsTrue
IsTrue(v) ==
    CASE v.t = "nil" -> FALSE
      [] v.t = "bool" -> v.b
      [] v.t = "int" -> v.n # 0
      [] v.t = "str" -> v.s # <<>>
      [] v.t = "list" -> v.l # <<>>
      [] v.t = "map" -> DOMAIN v.m # {}
      [] v.t = "loop" -> v.r # NoLoop

\* the builtin len: [n, err]
length(v) ==
    CASE v.t = "str" -> [n |-> Len(v.s), err |-> ""]
      [] v.t = "list" -> [n |-> Len(v.l), err |-> ""]
      [] v.t = "map" -> [n |-> Cardinality(DOMAIN v.m), err |-> ""]
      [] OTHER -> [n |-> 0, err |-> "len of type"]

ERes(out, err, ctl, vs) == [out |-> out, err |-> err, ctl |-> ctl, vs |-> vs]

LoopVar(depth) == Str(<<"_", "_", "l", "o", "o", "p">> \o NatChars(depth))
IdxVar(depth) == Str(<<"_", "_", "i", "d", "x">> \o NatChars(depth))
KeyVar(n) == IF n.y = <<"_">> THEN IdxVar(n.num) ELSE Str(n.y)

\* an echo: {{ html X }} runs as  _eval_args_ X | html  and {{ X }} as
\* X | _html_template_htmlescaper
walkEcho(n, dot, vs) ==
    LET print(r) ==
            IF r.err # "" THEN ERes(<<>>, r.err, "", vs)
            ELSE IF ~IsScalar(r.v) THEN ERes(<<>>, "unmodelled", "", vs)
            ELSE IF n.flag THEN ERes(HTMLEscapeString(Sprint(r.v)), "", "", vs)
            ELSE ERes(HtmlEscaper(Sprint(r.v)), "", "", vs)
    IN print(evalExpr(n.x, dot))

RECURSIVE walk(_, _, _, _)
RECURSIVE walkList(_, _, _, _)
RECURSIVE walkRange(_, _, _, _, _)
\* state.walk over a list of nodes; a variable declared in the list lives to its end
walkList(nodes, dot, vs, defs) ==
    IF nodes = <<>> THEN ERes(<<>>, "", "", vs)
    ELSE LET join(r1, r2) == ERes(r1.out \o r2.out, r2.err, r2.ctl, r2.vs)
             rest(r1) ==
                 IF r1.err # "" \/ r1.ctl # "" THEN r1
                 ELSE join(r1, walkList(Tail(nodes), dot, r1.vs, defs))
         IN rest(walk(nodes[1], dot, vs, defs))

\* state.walkRange over the elements from index i on
walkRange(n, l, i, vs, defs) ==
    IF i >= Len(l) THEN ERes(<<>>, "", "", vs)
    ELSE LET join(r1, r2) == ERes(r1.out \o r2.out, r2.err, "", vs)
             next(r1) ==
                 IF r1.err # "" THEN ERes(r1.out, r1.err, "", vs)
                 ELSE IF r1.ctl = "break" THEN ERes(r1.out, "", "", vs)
                 ELSE join(r1, walkRange(n, l, i + 1, vs, defs))
         IN next(walkList(n.body, l[i + 1],
                          MapSet(MapSet(vs, KeyVar(n), VInt(i)), n.name, l[i + 1]), defs))

walk(n, dot, vs, defs) ==
    LET \* the variables a nested list declares end with it
        scoped(r) == ERes(r.out, r.err, r.ctl, vs)
        fail(err) == ERes(<<>>, err, "", vs)
        if(c) ==
            IF c.err # "" THEN fail(c.err)
            ELSE scoped(walkList(IF (IF n.flag THEN ~toBoolValue(c.v) ELSE IsTrue(c.v))
                                 THEN n.body ELSE n.els, dot, vs, defs))
        declare(len) ==
            IF len.err # "" THEN fail(len.err)
            ELSE ERes(<<>>, "", "", MapSet(vs, LoopVar(n.num), VLoop(NewLoop(len.n, n.num))))
        newloop(c) == IF c.err # "" THEN fail(c.err) ELSE declare(length(c.v))
        range(c) ==
            IF c.err # "" THEN fail(c.err)
            ELSE IF c.v.t = "list" /\ c.v.l # <<>> THEN walkRange(n, c.v.l, 0, vs, defs)
            ELSE IF c.v.t \in {"list", "nil"} THEN scoped(walkList(n.els, dot, vs, defs))
            ELSE IF c.v.t = "map" THEN fail("unmodelled")
            ELSE fail("range can't iterate")
        loopupdate(key) ==
            IF key.t # "int" THEN fail("wrong type for value")
            ELSE ERes(<<>>, "", "",
                      MapSet(vs, "loop", VLoop(Update(vs[LoopVar(n.num)].r, key.n))))
        block(r) == ERes(r.out, r.err, "", vs)
    IN CASE n.k = "text" ->
               IF IsPlainHtmlText(n.x) THEN ERes(EscapeText(n.x), "", "", vs)
               ELSE fail("unmodelled")
         [] n.k = "echo" -> walkEcho(n, dot, vs)
         [] n.k = "number" -> ERes(n.x, "", "", vs)
         [] n.k = "if" -> if(evalExpr(n.x, dot))
         [] n.k = "newloop" -> newloop(evalExpr(n.x, dot))
         [] n.k = "range" -> range(evalExpr(n.x, dot))
         [] n.k = "loopupdate" -> loopupdate(vs[KeyVar(n)])
         [] n.k = "block" ->
               block(walkList(DefBody(defs, n.name), dot, [x \in {} |-> VNil], defs))
         [] n.k \in {"break", "continue"} -> ERes(<<>>, "", n.k, vs)
         [] OTHER -> fail("unmodelled")

\* does the tree hold only what this model executes: text that stays in the HTML
\* text context, and no call of a registered function
RECURSIVE IsModelledTree(_)
IsModelledTree(nodes) ==
    \A i \in 1..Len(nodes) :
        /\ nodes[i].k = "text" => IsPlainHtmlText(nodes[i].x)
        /\ nodes[i].k \in {"echo", "if", "range", "newloop"} => IsFieldChain(nodes[i].x)
        /\ nodes[i].k # "call"
        /\ nodes[i].k \in {"if", "range", "block"} =>
               IsModelledTree(nodes[i].body) /\ IsModelledTree(nodes[i].els)

\* Template.Execute on the prepared data: [out, err]
Execute(t, data) ==
    LET result(r) ==
            IF ~IsModelledTree(t.tree) THEN [out |-> <<>>, err |-> "unmodelled"]
            ELSE [out |-> r.out, err |-> r.err]
    IN result(walkList(t.tree, data, [x \in {} |-> VNil], t.defs))

\* Engine.RenderTemplate after tmpl.Execute: the buffer is returned when there is no error
Rendered(r) == IF r.err # "" THEN [out |-> <<>>, err |-> r.err] ELSE [out |-> r.out, err |-> ""]

\* Engine.RenderTemplate after template.Parse
ExecuteParsed(t, data) ==
    IF t.err = "unmodelled" THEN [out |-> <<>>, err |-> "unmodelled"]
    ELSE IF t.err # "" THEN [out |-> <<>>, err |-> "failed to parse compiled template"]
    ELSE Rendered(Execute(t, prepareData(data)))

\* Engine.RenderTemplate after e.compile
ParseCompiled(c, data) ==
    IF c.err # "" THEN [out |-> <<>>, err |-> c.err]
    ELSE ExecuteParsed(ParseTemplate(c.compiled), data)

\* Engine.RenderTemplate: [out, err], the output empty when there is an error
RenderTemplate(templateStr, data) == ParseCompiled(compile(templateStr), data)

(***************************************************************************)
(* Inheritance resolution: Engine.compileWithInheritance                   *)
(***************************************************************************)
\* strings.Index(parentCompiled, `{{ block "name" . }}`): 1-based, 0 if absent
BlockStartIndex(parentCompiled, sectionName) ==
    LET hits == {i \in 1..Len(parentCompiled) : parentCompiled[i] = BlockItem(sectionName)}
    IN IF hits = {} THEN 0 ELSE CHOOSE i \in hits : \A j \in hits : i <= j

\* the search for the matching {{ end }}: the index of the action that brings
\* the depth to zero, 0 if there is none
RECURSIVE MatchingEnd(_, _, _)
MatchingEnd(parentCompiled, i, depth0) ==
    IF i > Len(parentCompiled) THEN 0
    ELSE IF parentCompiled[i] = EndItem
    THEN IF depth0 = 1 THEN i ELSE MatchingEnd(parentCompiled, i + 1, depth0 - 1)
    ELSE IF parentCompiled[i].k \in {"if", "range", "block"}
    THEN MatchingEnd(parentCompiled, i + 1, depth0 + 1)
    ELSE MatchingEnd(parentCompiled, i + 1, depth0)

\* strings.ReplaceAll(sectionContent, "{{__PARENT__}}", parentContent)
RECURSIVE ReplaceParent(_, _)
ReplaceParent(sectionContent, parentContent) ==
    IF sectionContent = <<>> THEN <<>>
    ELSE (IF sectionContent[1] = ParentMarker THEN parentContent ELSE <<sectionContent[1]>>)
         \o ReplaceParent(Tail(sectionContent), parentContent)

\* the section loop of compileWithInheritance finding no block to replace
SpliceSectionNotFound(parentCompiled, parentSections, sectionName, content) == parentCompiled

\* one pass of the loop over childSections: @parent is replaced in the local
\* copy of the content, which then replaces the first block of that name
SpliceSection(parentCompiled, parentSections, sectionName, content) ==
    LET sectionContent ==
            IF HasParentMarker(content)
            THEN ReplaceParent(content, MapGetSeq(parentSections, sectionName))
            ELSE content
        startIdx == BlockStartIndex(parentCompiled, sectionName)
        endIdx == MatchingEnd(parentCompiled, startIdx + 1, 1)
    IN IF startIdx = 0 \/ endIdx = 0 THEN parentCompiled
       ELSE SubSeq(parentCompiled, 1, startIdx - 1) \o sectionContent
            \o SubSeq(parentCompiled, endIdx + 1, Len(parentCompiled))

\* the loop over childSections in one iteration order of the map
RECURSIVE SpliceAll(_, _, _, _)
SpliceAll(parentCompiled, parentSections, childSections, order) ==
    IF order = <<>> THEN parentCompiled
    ELSE SpliceAll(SpliceSection(parentCompiled, parentSections, order[1],
                                 childSections[order[1]]),
                   parentSections, childSections, Tail(order))

\* the merge of the section tables: the child wins on a shared name
MergeSections(childSections, parentSections) ==
    [x \in DOMAIN childSections \cup DOMAIN parentSections |->
        IF x \in DOMAIN childSections THEN childSections[x] ELSE parentSections[x]]

\* the orders in which Go may iterate over a map with these keys
MapOrders(keys) ==
    {o \in [1..Cardinality(keys) -> keys] : \A i, j \in 1..Cardinality(keys) : o[i] = o[j] => i = j}

(***************************************************************************)
(* Rendering a template string: Engine.RenderTemplate on bounded inputs    *)
(***************************************************************************)
MaxElseIfs == 2
MaxItems == 3
MaxValueLen == 2
MaxTextLen == 3
MaxStackOps == 3

NoData == [k \in {} |-> VNil]

\* all sequences over a set of length at most n
RECURSIVE SeqsUpTo(_, _)
SeqsUpTo(S, n) ==
    IF n = 0 THEN {<<>>}
    ELSE LET shorter == SeqsUpTo(S, n - 1)
         IN shorter \cup {Append(s, x) : s \in {t \in shorter : Len(t) = n - 1}, x \in S}

\* --- @if / @elseif / @else chains: branch i tests $<CondNames[i]> and prints BodyNames[i]
CondNames == <<"a", "b", "c", "d", "e">>
BodyNames == <<"A", "B", "C", "D", "E", "F">>

RECURSIVE ElseIfText(_, _)
ElseIfText(i, n) ==
    IF i > n + 1 THEN <<>>
    ELSE <<"@","e","l","s","e","i","f","(","$">> \o <<CondNames[i]>> \o <<")", BodyNames[i]>>
         \o ElseIfText(i + 1, n)

ElseBody(n) == <<" ", BodyNames[n + 2]>>

IfTemplate(n, hasElse) ==
    <<"@","i","f","(","$","a",")","A">> \o ElseIfText(2, n)
    \o (IF hasElse THEN <<"@","e","l","s","e">> \o ElseBody(n) ELSE <<>>)
    \o <<"@","e","n","d","i","f">>

IfInputs ==
    UNION {{[fam |-> "if", tpl |-> IfTemplate(n, e), n |-> n, hasElse |-> e, truth |-> tr,
             data |-> [k \in DOMAIN tr |-> VBool(tr[k])]] :
                e \in BOOLEAN, tr \in [{CondNames[i] : i \in 1..(n + 1)} -> BOOLEAN]} :
           n \in 0..MaxElseIfs}

\* --- echoes of a string value
EchoAlphabet == {"<", ">", "b", "&", "+"}
EscapedEcho == <<"{","{"," ","$","x"," ","}","}">>
RawEcho == <<"{","!","!"," ","$","x"," ","!","!","}">>

EchoInputs ==
    {[fam |-> "echo", tpl |-> t, x |-> x, data |-> [k \in {"x"} |-> VStr(x)]] :
        t \in {EscapedEcho, RawEcho}, x \in SeqsUpTo(EchoAlphabet, MaxValueLen) \ {<<>>}}

\* --- @foreach printing $loop.iteration, and @forelse printing its item
ForeachTemplate == <<"@","f","o","r","e","a","c","h","(","$","i","t","e","m","s"," ","a","s"," ","$","i","t","e","m",")","{","{"," ","$","l","o","o","p",".","i","t","e","r","a","t","i","o","n"," ","}","}","@","e","n","d","f","o","r","e","a","c","h">>
ForelseTemplate == <<"@","f","o","r","e","l","s","e","(","$","i","t","e","m","s"," ","a","s"," ","$","i",")","{","{"," ","$","i"," ","}","}","@","e","m","p","t","y"," ","n","o","n","e","@","e","n","d","f","o","r","e","l","s","e">>
ListElements == {VStr(<<"x">>), VInt(1), VInt(2)}

LoopInputs ==
    {[fam |-> f, tpl |-> IF f = "foreach" THEN ForeachTemplate ELSE ForelseTemplate,
      items |-> l, data |-> [k \in {"items"} |-> VList(l)]] :
        f \in {"foreach", "forelse"}, l \in SeqsUpTo(ListElements, MaxItems)}

\* --- @push / @prepend fragments followed by @stack
StackOps == {[op |-> "push", frag |-> "A"], [op |-> "push", frag |-> "B"],
             [op |-> "prepend", frag |-> "Z"]}

RECURSIVE StackOpsText(_)
StackOpsText(ops) ==
    IF ops = <<>> THEN <<>>
    ELSE (IF ops[1].op = "push"
          THEN <<"@","p","u","s","h","(","'","s","'",")">> \o <<ops[1].frag>> \o <<"@","e","n","d","p","u","s","h">>
          ELSE <<"@","p","r","e","p","e","n","d","(","'","s","'",")">> \o <<ops[1].frag>> \o <<"@","e","n","d","p","r","e","p","e","n","d">>)
         \o StackOpsText(Tail(ops))

StackTemplate(ops) == StackOpsText(ops) \o <<"@","s","t","a","c","k","(","'","s","'",")">>

StackInputs ==
    {[fam |-> "stack", tpl |-> StackTemplate(ops), ops |-> ops, data |-> NoData] :
        ops \in SeqsUpTo(StackOps, MaxStackOps)}

\* --- templates without directives, echoes or comments
TextAlphabet == {"1", " ", "<", ".", "\n"}

TextInputs ==
    {[fam |-> "text", tpl |-> t, data |-> NoData] : t \in SeqsUpTo(TextAlphabet, MaxTextLen)}

RenderInputs == IfInputs \cup EchoInputs \cup LoopInputs \cup StackInputs \cup TextInputs

(***************************************************************************)
(* Rendering a template file: Engine.Render on bounded sets of files       *)
(***************************************************************************)
MaxLevels == 2
MaxCycle == 3
MaxFrames == 4

Extends(parent) == <<"@","e","x","t","e","n","d","s","(","'">> \o parent \o <<"'",")">>

\* --- a child over a chain of ancestors ending in a base with one @yield
ChildName == "child"
BaseName == "base"
MidChars(i) == <<"m", "i", "d">> \o NatChars(i)

BaseTemplate(inp) ==
    inp.pre \o <<"@","y","i","e","l","d","(","'","t","i","t","l","e","'",",","'">> \o inp.default \o <<"'",")">> \o inp.post

SectionText(inp) ==
    CASE inp.form = "none" -> <<>>
      [] inp.form = "inline" ->
            <<"@","s","e","c","t","i","o","n","(","'","t","i","t","l","e","'",",","'">> \o inp.content \o <<"'",")","@","e","n","d","s","e","c","t","i","o","n">>
      [] inp.form = "inlineOnly" ->
            <<"@","s","e","c","t","i","o","n","(","'","t","i","t","l","e","'",",","'">> \o inp.content \o <<"'",")">>
      [] inp.form = "block" ->
            <<"@","s","e","c","t","i","o","n","(","'","t","i","t","l","e","'",")">> \o inp.content \o <<"@","e","n","d","s","e","c","t","i","o","n">>

\* the name the i-th template of the chain extends: child, mid1, ..., base
AncestorChars(inp, i) ==
    IF i + 1 >= inp.levels THEN <<"b","a","s","e">> ELSE MidChars(i + 1)

YieldFiles(inp) ==
    [k \in {ChildName, BaseName} \cup {Str(MidChars(i)) : i \in 1..(inp.levels - 1)} |->
        IF k = BaseName THEN BaseTemplate(inp)
        ELSE IF k = ChildName THEN Extends(AncestorChars(inp, 0)) \o SectionText(inp)
        ELSE LET i == CHOOSE j \in 1..(inp.levels - 1) : k = Str(MidChars(j))
             IN Extends(AncestorChars(inp, i)) \o <<" ","i","g","n","o","r","e","d"," ">>]

YieldInputs ==
    {[fam |-> "yield", form |-> f, levels |-> l, content |-> c, default |-> d,
      pre |-> pre, post |-> post] :
        f \in {"none", "inline", "inlineOnly", "block"}, l \in 1..MaxLevels,
        c \in {<<"H","i">>, <<"A"," ","b">>}, d \in {<<"D","e","f","a","u","l","t">>, <<"d">>},
        pre \in {<<>>, <<"T",":">>}, post \in {<<>>, <<".">>}}

\* --- chains of @extends that come back to a template already on the chain
CycleChars(i) == <<"t">> \o NatChars(i)

CycleFiles(inp) ==
    [k \in {Str(CycleChars(i)) : i \in 1..inp.len} \cup (IF inp.entry THEN {"entry"} ELSE {}) |->
        IF k = "entry" THEN Extends(CycleChars(1))
        ELSE LET i == CHOOSE j \in 1..inp.len : k = Str(CycleChars(j))
             IN Extends(CycleChars((i % inp.len) + 1))
                \o (IF inp.withSection THEN <<"@","s","e","c","t","i","o","n","(","'","t","i","t","l","e","'",",","'","H","i","'",")">> ELSE <<>>)]

CycleInputs ==
    {[fam |-> "cycle", len |-> n, entry |-> e, withSection |-> s] :
        n \in 1..MaxCycle, e \in BOOLEAN, s \in BOOLEAN}

\* --- templates that use @parent
ParentFileSets ==
    << [k \in {"page"} |-> <<"x","@","p","a","r","e","n","t"," ","y">>],
       [k \in {"page"} |-> <<"@","s","e","c","t","i","o","n","(","'","b","'",")","x","@","p","a","r","e","n","t","@","s","h","o","w">>],
       [k \in {"base", "child"} |->
           IF k = "base" THEN <<"@","s","e","c","t","i","o","n","(","'","b","'",")","b","a","s","e","@","s","h","o","w">>
           ELSE <<"@","e","x","t","e","n","d","s","(","'","b","a","s","e","'",")","@","s","e","c","t","i","o","n","(","'","b","'",")","x","@","p","a","r","e","n","t"," ","y","@","e","n","d","s","e","c","t","i","o","n">>],
       [k \in {"base", "child"} |->
           IF k = "base" THEN <<"@","y","i","e","l","d","(","'","b","'",",","'","d","'",")">>
           ELSE <<"@","e","x","t","e","n","d","s","(","'","b","a","s","e","'",")","@","s","e","c","t","i","o","n","(","'","b","'",")","x","@","p","a","r","e","n","t"," ","y","@","e","n","d","s","e","c","t","i","o","n">>],
       [k \in {"base", "child"} |->
           IF k = "base" THEN <<"@","s","e","c","t","i","o","n","(","'","b","'",")","p","@","p","a","r","e","n","t"," ","q","@","s","h","o","w">>
           ELSE <<"@","e","x","t","e","n","d","s","(","'","b","a","s","e","'",")">>],
       [k \in {"base", "child"} |->
           IF k = "base" THEN <<"@","s","e","c","t","i","o","n","(","'","b","'",")","p","@","p","a","r","e","n","t"," ","q","@","s","h","o","w">>
           ELSE <<"@","e","x","t","e","n","d","s","(","'","b","a","s","e","'",")","@","s","e","c","t","i","o","n","(","'","b","'",")","x","@","p","a","r","e","n","t"," ","y","@","e","n","d","s","e","c","t","i","o","n">>],
       [k \in {"base", "child"} |->
           IF k = "base" THEN <<"t","o","p","@","p","a","r","e","n","t"," ","@","y","i","e","l","d","(","'","b","'",")">>
           ELSE <<"@","e","x","t","e","n","d","s","(","'","b","a","s","e","'",")","@","s","e","c","t","i","o","n","(","'","b","'",")","x","@","e","n","d","s","e","c","t","i","o","n">>],
       [k \in {"base", "mid", "child"} |->
           IF k = "base" THEN <<"@","y","i","e","l","d","(","'","b","'",")">>
           ELSE IF k = "mid" THEN <<"@","e","x","t","e","n","d","s","(","'","b","a","s","e","'",")","@","s","e","c","t","i","o","n","(","'","b","'",")","m","@","e","n","d","s","e","c","t","i","o","n">>
           ELSE <<"@","e","x","t","e","n","d","s","(","'","m","i","d","'",")","@","s","e","c","t","i","o","n","(","'","b","'",")","x","@","p","a","r","e","n","t"," ","y","@","e","n","d","s","e","c","t","i","o","n">>] >>

ParentInputs == {[fam |-> "parent", set |-> i] : i \in 1..Len(ParentFileSets)}

\* --- a base whose @section('b') ... @show has a body of directives, and a
\* child that replaces it
MaxBlockBody == 3

\* the directive of the name, given in characters
DirectiveText(name) == <<"@">> \o name

Dir(name) == [k |-> "dir", name |-> name, text |-> DirectiveText(name)]
DirArgs(name, args) ==
    [k |-> "dir", name |-> name, args |-> args,
     text |-> DirectiveText(name) \o <<"(">> \o args \o <<")">>]

PiecesText(ps) == Concat([i \in 1..Len(ps) |-> ps[i].text])

TextPiece == [k |-> "text", text |-> <<"!">>]

\* @switch($a)@default@endswitch: a switch with a default and no case
DefaultOnlySwitch ==
    [k |-> "leaf",
     text |-> DirArgs(<<"s", "w", "i", "t", "c", "h">>, <<"$", "a">>).text
              \o Dir(<<"d", "e", "f", "a", "u", "l", "t">>).text
              \o Dir(<<"e", "n", "d", "s", "w", "i", "t", "c", "h">>).text]

BlockBodyPieces ==
    {TextPiece, DefaultOnlySwitch,
     [k |-> "open", kind |-> "IF", text |-> DirArgs(<<"i", "f">>, <<"$", "a">>).text],
     [k |-> "close", kind |-> "IF", text |-> Dir(<<"e", "n", "d", "i", "f">>).text],
     [k |-> "open", kind |-> "FOREACH",
      text |-> DirArgs(<<"f", "o", "r", "e", "a", "c", "h">>,
                       <<"$", "x", "s", " ", "a", "s", " ", "$", "x">>).text],
     [k |-> "close", kind |-> "FOREACH",
      text |-> Dir(<<"e", "n", "d", "f", "o", "r", "e", "a", "c", "h">>).text],
     [k |-> "yield", text |-> DirArgs(<<"y", "i", "e", "l", "d">>, <<"'", "c", "'", ",", "'", "e", "'">>).text],
     [k |-> "end", text |-> Dir(<<"e", "n", "d">>).text]}

SectionOf(name, content) ==
    DirArgs(<<"s", "e", "c", "t", "i", "o", "n">>, <<"'">> \o name \o <<"'">>).text
    \o content \o Dir(<<"e", "n", "d", "s", "e", "c", "t", "i", "o", "n">>).text

BlockBodyFiles(inp) ==
    [k \in {"base", "child"} |->
        IF k = "base"
        THEN <<"<">> \o DirArgs(<<"s", "e", "c", "t", "i", "o", "n">>, <<"'", "b", "'">>).text
             \o PiecesText(inp.body) \o Dir(<<"s", "h", "o", "w">>).text \o <<">">>
        ELSE Extends(<<"b", "a", "s", "e">>) \o SectionOf(<<"b">>, <<"N">>)
             \o (IF inp.withC THEN SectionOf(<<"c">>, <<"M">>) ELSE <<>>)]

BlockBodyInputs ==
    {[fam |-> "block", body |-> b, withC |-> w] :
        b \in SeqsUpTo(BlockBodyPieces, MaxBlockBody), w \in BOOLEAN}

\* --- a child whose section b holds @parent, over a base directly or over
\* a mid template that extends the base
ParentChainFiles(inp) ==
    [k \in {"base", "child"} \cup (IF inp.levels = 2 THEN {"mid"} ELSE {}) |->
        IF k = "base"
        THEN IF inp.baseDefines
             THEN DirArgs(<<"s", "e", "c", "t", "i", "o", "n">>, <<"'", "b", "'">>).text
                  \o <<"p">> \o Dir(<<"s", "h", "o", "w">>).text
             ELSE DirArgs(<<"y", "i", "e", "l", "d">>, <<"'", "b", "'">>).text
        ELSE IF k = "mid"
        THEN Extends(<<"b", "a", "s", "e">>)
             \o (IF inp.midDefines THEN SectionOf(<<"b">>, <<"m">>) ELSE <<>>)
        ELSE Extends(IF inp.levels = 2 THEN <<"m", "i", "d">> ELSE <<"b", "a", "s", "e">>)
             \o SectionOf(<<"b">>, <<"x">> \o Dir(<<"p", "a", "r", "e", "n", "t">>).text \o <<" ", "y">>)]

ParentChainInputs ==
    {[fam |-> "chain", levels |-> l, midDefines |-> m, baseDefines |-> b] :
        l \in 1..MaxLevels, m \in BOOLEAN, b \in BOOLEAN}

InheritInputs == YieldInputs \cup CycleInputs \cup ParentInputs \cup BlockBodyInputs \cup ParentChainInputs

Files(inp) ==
    CASE inp.fam = "yield" -> YieldFiles(inp)
      [] inp.fam = "cycle" -> CycleFiles(inp)
      [] inp.fam = "parent" -> ParentFileSets[inp.set]
      [] inp.fam = "block" -> BlockBodyFiles(inp)
      [] inp.fam = "chain" -> ParentChainFiles(inp)

(***************************************************************************)
(* State                                                                   *)
(***************************************************************************)
VARIABLES
    input,      \* RenderTemplate: the template string and the data it is called with
    phase,      \* where the call is: "new", "resolving", "parse", "done", "failed", "overflow"
    program,    \* the compiled template handed to template.Parse
    result,     \* what the call returned: [out, err]; the Parser (pos, current) in SpecParser
    fs,         \* Render: the template files, name -> content (with its ModTime in SpecCache)
    target,     \* Render: the name being rendered
    sections,   \* compileWithInheritance: the childSections map carried up the chain
    next,       \* compileWithInheritance: parentName of the pending call
    depth,      \* number of compileWithInheritance frames on the goroutine stack
    chain,      \* the names of the files read so far, in order
    lpc,        \* nested loops: position in the compiled loop code
    counts,     \* nested loops: the lengths of the outer and the inner list
    idx,        \* nested loops: the range index of the outer and the inner loop
    scope,      \* nested loops: the stack of declared template variables
    runs,       \* getTemplate: the calls in progress, each with its own locals; the parse functions in progress in SpecParser
    cache,      \* TemplateCache.templates: name -> the cached program
    disabled,   \* TemplateCache.disabled
    ctx,        \* the Contexts made so far: c, and c2 once c is cloned; fields are map references
    heap,       \* the Go heap: the maps and the backing arrays of the slices
    lastOp,     \* the last Context method called, on which Context, and the views before it
    nops,       \* number of Context methods called; of loop iterations in SpecParser; of file and cache operations in SpecCache
    thr,        \* the goroutines using the engine: the method each runs and where it is in it
    locks       \* the RWMutexes: TemplateCache.mu, Engine.mutex, SharedData.mu

vars == <<input, phase, program, result, fs, target, sections, next, depth, chain,
          lpc, counts, idx, scope, runs, cache, disabled,
          ctx, heap, lastOp, nops, thr, locks>>
renderVars == <<input, phase, program, result>>
inheritVars == <<fs, target, sections, next, depth, chain>>
loopVars == <<lpc, counts, idx, scope>>
cacheVars == <<runs, cache, disabled>>
contextVars == <<ctx, heap, lastOp, nops>>
engineVars == <<thr, locks>>
auxVars == <<cacheVars, contextVars, engineVars>>

NoResult == [out |-> <<>>, err |-> "none"]
NoInput == [fam |-> "none", tpl |-> <<>>, data |-> NoData]

InheritIdle ==
    /\ fs = EmptyMap /\ target = "" /\ sections = EmptyMap
    /\ next = "" /\ depth = 0 /\ chain = <<>>
LoopIdle == lpc = "idle" /\ counts = <<0, 0>> /\ idx = <<-1, -1>> /\ scope = <<>>
CacheIdle == runs = <<>> /\ cache = EmptyMap /\ disabled = FALSE
ContextIdle == ctx = <<>> /\ heap = <<>> /\ lastOp = <<>> /\ nops = 0
EngineIdle == thr = <<>> /\ locks = <<>>
AuxIdle == CacheIdle /\ ContextIdle /\ EngineIdle

(***************************************************************************)
(* SpecRender: one call of Engine.RenderTemplate                           *)
(***************************************************************************)
InitRender ==
    /\ input \in RenderInputs
    /\ phase = "new" /\ program = <<>> /\ result = NoResult
    /\ InheritIdle /\ LoopIdle /\ AuxIdle

\* Engine.RenderTemplate(input.tpl, input.data)
RenderTemplateCall ==
    /\ phase = "new"
    /\ program' = compile(input.tpl).compiled
    /\ result' = RenderTemplate(input.tpl, input.data)
    /\ phase' = "done"
    /\ UNCHANGED <<input, inheritVars, loopVars, auxVars>>

NextRender == RenderTemplateCall
SpecRender == InitRender /\ [][NextRender]_vars

\* every input of SpecRender is a template this model executes in full
RenderModelled == result.err # "unmodelled"

\* --- C8 -------------------------------------------------------------------
TrueBranches(inp) == {i \in 1..(inp.n + 1) : inp.truth[CondNames[i]]}

\* what the chain is to render: the body of the first true branch, else the
\* @else body, else nothing
ExpectedIf(inp) ==
    IF TrueBranches(inp) # {}
    THEN <<BodyNames[CHOOSE i \in TrueBranches(inp) : \A j \in TrueBranches(inp) : i <= j]>>
    ELSE IF inp.hasElse THEN ElseBody(inp.n) ELSE <<>>

\* C8: an @if/@elseif/@else/@endif chain renders the body of the first branch
\* whose condition is true and no other branch, and the @else body only when
\* every condition is false.
C8_FirstTrueBranch ==
    (phase = "done" /\ input.fam = "if") =>
        result = [out |-> ExpectedIf(input), err |-> ""]

\* @if($a)A@elseif($b)B@else C@endif with a false and b true has rendered B
C8_Witness ==
    /\ phase = "done" /\ input.fam = "if"
    /\ input.n = 1 /\ input.hasElse
    /\ ~input.truth["a"] /\ input.truth["b"]
    /\ result.out = <<"B">>

\* --- C3 -------------------------------------------------------------------
\* C3: the escaped echo {{ $x }} renders x HTML-escaped exactly once and the
\* raw echo {!! $x !!} renders x unchanged.
C3_EscapingLaw ==
    (phase = "done" /\ input.fam = "echo") =>
        result = [out |-> IF input.tpl = EscapedEcho THEN HTMLEscapeString(input.x)
                          ELSE input.x,
                  err |-> ""]

\* --- C4 -------------------------------------------------------------------
RECURSIVE Iterations(_)
Iterations(n) == IF n = 0 THEN <<>> ELSE Iterations(n - 1) \o NatChars(n)

\* C4: inside @foreach over n items {{ $loop.iteration }} renders 1, 2, ..., n
\* on successive passes, and nothing over an empty list.
C4_LoopIteration ==
    (phase = "done" /\ input.fam = "foreach") =>
        result = [out |-> Iterations(Len(input.items)), err |-> ""]

\* --- C7 -------------------------------------------------------------------
RECURSIVE SprintAll(_)
SprintAll(l) == IF l = <<>> THEN <<>> ELSE Sprint(l[1]) \o SprintAll(Tail(l))

\* C7: @forelse renders the @empty body exactly when the collection is empty
\* and otherwise the loop body once per item with $i bound to that item.
C7_ForelseBodyOrEmpty ==
    (phase = "done" /\ input.fam = "forelse") =>
        result = [out |-> IF input.items = <<>> THEN <<" ","n","o","n","e">>
                          ELSE SprintAll(input.items),
                  err |-> ""]

\* --- C6 -------------------------------------------------------------------
RECURSIVE StackOrder(_)
StackOrder(ops) ==
    IF ops = <<>> THEN <<>>
    ELSE LET before == StackOrder(SubSeq(ops, 1, Len(ops) - 1))
             last == ops[Len(ops)]
         IN IF last.op = "push" THEN Append(before, last.frag) ELSE <<last.frag>> \o before

\* C6: @stack renders the pushed fragments in push order, after every
\* prepended fragment.
C6_StackOrder ==
    (phase = "done" /\ input.fam = "stack") =>
        result = [out |-> StackOrder(input.ops), err |-> ""]

\* --- C9 -------------------------------------------------------------------
\* C9: a template without directives, echoes or comments renders as itself,
\* character for character.
C9_PlainTextIdentity ==
    (phase = "done" /\ input.fam = "text") =>
        result = [out |-> input.tpl, err |-> ""]

(***************************************************************************)
(* SpecInherit: one call of Engine.Render(w, target, nil) with an empty    *)
(* cache.  The recursion of compileWithInheritance is one action per call. *)
(* chain is a history variable: the code keeps no record of the names it   *)
(* has read.  MaxFrames stands for the goroutine's stack limit.            *)
(***************************************************************************)
InitInherit ==
    /\ input \in InheritInputs
    /\ fs = Files(input)
    /\ target \in DOMAIN fs
    /\ phase = "new" /\ program = <<>> /\ result = NoResult
    /\ sections = EmptyMap /\ next = "" /\ depth = 0 /\ chain = <<>>
    /\ LoopIdle /\ AuxIdle

Returned(out, err) == phase' = "done" /\ result' = [out |-> out, err |-> err]

\* Engine.compileFile, up to its call of compileWithInheritance or template.Parse
CompileFile ==
    /\ phase = "new"
    /\ chain' = <<target>>
    /\ LET compiled(c) ==
               IF c.err # ""
               THEN Returned(<<>>, "failed to compile template")
                    /\ UNCHANGED <<program, sections, next>>
               ELSE /\ program' = c.compiled
                    /\ sections' = c.sections
                    /\ next' = Str(c.extends)
                    /\ phase' = IF c.extends # <<>> THEN "resolving" ELSE "parse"
                    /\ UNCHANGED result
       IN compiled(compile(fs[target]))
    /\ UNCHANGED <<input, fs, target, depth, loopVars, auxVars>>

\* one call of Engine.compileWithInheritance(name, program, next, sections), up
\* to its recursive call or its call of template.Parse
CompileWithInheritance ==
    /\ phase = "resolving"
    /\ depth < MaxFrames
    /\ depth' = depth + 1
    /\ chain' = Append(chain, next)
    /\ LET resolve(p, merged) ==
               IF p.err # ""
               THEN Returned(<<>>, "failed to compile parent template")
                    /\ UNCHANGED <<program, sections, next>>
               ELSE \E order \in MapOrders(DOMAIN merged) :
                        /\ sections' = merged
                        /\ program' = SpliceAll(p.compiled, p.sections, merged, order)
                        /\ next' = Str(p.extends)
                        /\ phase' = IF p.extends # <<>> THEN "resolving" ELSE "parse"
                        /\ UNCHANGED result
           compiled(p) == resolve(p, MergeSections(sections, p.sections))
       IN IF next \notin DOMAIN fs
          THEN Returned(<<>>, "failed to read parent template")
               /\ UNCHANGED <<program, sections, next>>
          ELSE compiled(compile(fs[next]))
    /\ UNCHANGED <<input, fs, target, loopVars, auxVars>>

\* the recursion has used up the stack: the Go runtime ends the process
StackOverflow ==
    /\ phase = "resolving"
    /\ depth = MaxFrames
    /\ phase' = "overflow"
    /\ UNCHANGED <<input, program, result, inheritVars, loopVars, auxVars>>

\* template.New(name).Funcs(e.functions).Parse(program), then Execute in Render
ParseAndExecute ==
    /\ phase = "parse"
    /\ LET executed(r) == Returned(r.out, r.err)
           parsed(t) ==
               IF t.err # ""
               THEN Returned(<<>>, IF t.err = "unmodelled" THEN "unmodelled"
                                   ELSE "failed to parse compiled template")
               ELSE executed(Execute(t, prepareData(NoData)))
       IN parsed(ParseTemplate(program))
    /\ UNCHANGED <<input, program, inheritVars, loopVars, auxVars>>

NextInherit == CompileFile \/ CompileWithInheritance \/ StackOverflow \/ ParseAndExecute
SpecInherit == InitInherit /\ [][NextInherit]_vars

InheritModelled == result.err # "unmodelled"

\* --- C2 -------------------------------------------------------------------
ExpectedYield(inp) ==
    inp.pre \o (IF inp.form = "none" THEN inp.default ELSE inp.content) \o inp.post

\* C2: rendering a child that extends a base puts the child's section N where
\* the base has @yield(N, default), and the default where the child defines no
\* section N.
C2_SectionReplacesYield ==
    (input.fam = "yield" /\ target = ChildName) =>
        /\ phase # "overflow"
        /\ phase = "done" => result = [out |-> ExpectedYield(input), err |-> ""]

\* the child with @section('title','Hi')@endsection over @yield('title','Default')
\* has rendered Hi
C2_Witness ==
    /\ phase = "done" /\ input.fam = "yield" /\ target = ChildName
    /\ input.form = "inline" /\ input.levels = 1
    /\ input.content = <<"H", "i">> /\ input.pre = <<>> /\ input.post = <<>>
    /\ result.out = <<"H", "i">>

\* --- C1 -------------------------------------------------------------------
\* C1: inheritance resolution tracks the names it has visited: no template is
\* read a second time on the way up the chain, and a cyclic chain ends with
\* an error instead of recursing until the stack is used up.
C1_CyclicExtendsFails ==
    /\ \A i, j \in 1..Len(chain) : chain[i] = chain[j] => i = j
    /\ phase # "overflow"

\* --- C10 ------------------------------------------------------------------
\* C10: the program handed to template.Parse after compilation and inheritance
\* resolution holds no ParentMarker.
C10_NoParentMarker == phase = "parse" => ~HasParentMarker(program)

(***************************************************************************)
(* SpecLoop: the execution of two nested @foreach loops, action by action  *)
(* of the code compileForeach emits:                                       *)
(*   {{ $__loop1 := newLoop (len X) 1 }}{{ range $__idx1, $a := X }}       *)
(*   {{ $loop := $__loop1.Update $__idx1 }}                                *)
(*     {{ $__loop2 := newLoop (len Y) 2 }}{{ range $__idx2, $b := Y }}     *)
(*     {{ $loop := $__loop2.Update $__idx2 }} body {{ end }}               *)
(*   {{ end }}                                                             *)
(* scope is the template's variable stack: a declaration is pushed, and    *)
(* popped at the end of the list it was declared in.                       *)
(***************************************************************************)
MaxCount == 3

Var(name, value) == [name |-> name, value |-> value]

\* the innermost declaration of a variable
Lookup(sc, name) ==
    sc[CHOOSE i \in 1..Len(sc) :
          sc[i].name = name /\ \A j \in 1..Len(sc) : sc[j].name = name => j <= i].value

\* the declarations of the variable, outermost first
RECURSIVE Declarations(_, _)
Declarations(sc, name) ==
    IF sc = <<>> THEN <<>>
    ELSE (IF sc[1].name = name THEN <<sc[1].value>> ELSE <<>>) \o Declarations(Tail(sc), name)

InitLoop ==
    /\ lpc = "start"
    /\ counts \in (0..MaxCount) \X (0..MaxCount)
    /\ idx = <<-1, -1>>
    /\ scope = <<>>
    /\ input = NoInput /\ phase = "none" /\ program = <<>> /\ result = NoResult
    /\ InheritIdle /\ AuxIdle

\* {{ $__loop1 := newLoop (len X) 1 }}
NewOuterLoop ==
    /\ lpc = "start"
    /\ scope' = Append(scope, Var(LoopVar(1), VLoop(NewLoop(counts[1], 1))))
    /\ lpc' = "outerRange"
    /\ UNCHANGED <<counts, idx, renderVars, inheritVars, auxVars>>

\* the outer range takes its next element, and {{ $loop := $__loop1.Update $__idx1 }}
OuterNext ==
    /\ lpc = "outerRange"
    /\ idx[1] + 1 < counts[1]
    /\ idx' = <<idx[1] + 1, -1>>
    /\ scope' = scope \o <<Var(IdxVar(1), VInt(idx[1] + 1)),
                           Var("loop", VLoop(Update(Lookup(scope, LoopVar(1)).r, idx[1] + 1)))>>
    /\ lpc' = "outerBody"
    /\ UNCHANGED <<counts, renderVars, inheritVars, auxVars>>

\* the outer range is exhausted
OuterExit ==
    /\ lpc = "outerRange"
    /\ idx[1] + 1 >= counts[1]
    /\ lpc' = "done"
    /\ UNCHANGED <<counts, idx, scope, renderVars, inheritVars, auxVars>>

\* {{ $__loop2 := newLoop (len Y) 2 }}
NewInnerLoop ==
    /\ lpc = "outerBody"
    /\ scope' = Append(scope, Var(LoopVar(2), VLoop(NewLoop(counts[2], 2))))
    /\ lpc' = "innerRange"
    /\ UNCHANGED <<counts, idx, renderVars, inheritVars, auxVars>>

\* the inner range takes its next element, and {{ $loop := $__loop2.Update $__idx2 }}
InnerNext ==
    /\ lpc = "innerRange"
    /\ idx[2] + 1 < counts[2]
    /\ idx' = <<idx[1], idx[2] + 1>>
    /\ scope' = scope \o <<Var(IdxVar(2), VInt(idx[2] + 1)),
                           Var("loop", VLoop(Update(Lookup(scope, LoopVar(2)).r, idx[2] + 1)))>>
    /\ lpc' = "innerBody"
    /\ UNCHANGED <<counts, renderVars, inheritVars, auxVars>>

\* the inner body ends: its declarations are popped
InnerBodyEnd ==
    /\ lpc = "innerBody"
    /\ scope' = SubSeq(scope, 1, Len(scope) - 2)
    /\ lpc' = "innerRange"
    /\ UNCHANGED <<counts, idx, renderVars, inheritVars, auxVars>>

\* the inner range is exhausted and the outer body ends: the declarations of
\* the outer body are popped
InnerExit ==
    /\ lpc = "innerRange"
    /\ idx[2] + 1 >= counts[2]
    /\ scope' = SubSeq(scope, 1, 1)
    /\ lpc' = "outerRange"
    /\ UNCHANGED <<counts, idx, renderVars, inheritVars, auxVars>>

NextLoop ==
    \/ NewOuterLoop \/ OuterNext \/ OuterExit
    \/ NewInnerLoop \/ InnerNext \/ InnerBodyEnd \/ InnerExit
SpecLoop == InitLoop /\ [][NextLoop]_vars

\* --- C5 -------------------------------------------------------------------
\* C5: at every iteration of the inner loop the parent of the inner loop
\* record is the outer loop's current record, so the inner
\* $loop.parent.iteration is the outer loop's current iteration number.
C5_InnerParentIsOuterCurrent ==
    lpc = "innerBody" =>
        LET loops == Declarations(scope, "loop")
        IN /\ loops[2].r.Parent = loops[1].r
           /\ loops[1].r.Iteration = idx[1] + 1

(***************************************************************************)
(* SpecGetTemplate: two calls of Engine.getTemplate(target) on one engine, *)
(* one per goroutine, the files unchanged throughout.  Each call has its   *)
(* own locals (runs[r]); the calls share the template cache.  The calls    *)
(* interleave freely, so one may start after the other has returned.       *)
(***************************************************************************)
Runs == {1, 2}

\* --- a child whose section a holds a @yield of its own
NestedBase(inp) ==
    inp.pre \o <<"@","y","i","e","l","d","(","'","a","'",")">>
    \o (IF inp.baseB THEN <<"@","y","i","e","l","d","(","'","b","'",",","'","d","'",")">> ELSE <<>>)

NestedChild(inp) ==
    Extends(<<"b","a","s","e">>)
    \o <<"@","s","e","c","t","i","o","n","(","'","a","'",")">> \o inp.content
    \o (IF inp.inner THEN <<"@","y","i","e","l","d","(","'","b","'",",","'","e","'",")">> ELSE <<>>)
    \o <<"@","e","n","d","s","e","c","t","i","o","n">>
    \o (IF inp.childB
        THEN <<"@","s","e","c","t","i","o","n","(","'","b","'",")","Y","@","e","n","d","s","e","c","t","i","o","n">>
        ELSE <<>>)

NestedFiles(inp) ==
    [k \in {BaseName, ChildName} |-> IF k = BaseName THEN NestedBase(inp) ELSE NestedChild(inp)]

NestedInputs ==
    {[fam |-> "nested", pre |-> pre, content |-> c, inner |-> i, baseB |-> bb, childB |-> cb] :
        pre \in {<<>>, <<"T",":">>}, c \in {<<"X">>, <<"H","i">>},
        i \in BOOLEAN, bb \in BOOLEAN, cb \in BOOLEAN}

GetTemplateInputs == YieldInputs \cup ParentInputs \cup NestedInputs

GetTemplateFiles(inp) == IF inp.fam = "nested" THEN NestedFiles(inp) ELSE Files(inp)

Run(pc, prog, secs, parent) == [pc |-> pc, program |-> prog, sections |-> secs, next |-> parent]
NewRun == Run("idle", <<>>, EmptyMap, "")

InitGetTemplate ==
    /\ input \in GetTemplateInputs
    /\ fs = GetTemplateFiles(input)
    /\ target \in DOMAIN fs
    /\ runs = [r \in Runs |-> NewRun]
    /\ cache = EmptyMap
    /\ disabled \in BOOLEAN
    /\ phase = "none" /\ program = <<>> /\ result = NoResult
    /\ sections = EmptyMap /\ next = "" /\ depth = 0 /\ chain = <<>>
    /\ LoopIdle /\ ContextIdle /\ EngineIdle

\* getTemplate: e.cache.Get(name) and e.cache.IsValid(name, filePath); the file
\* is as old as the entry, so an entry that is found is valid
CacheGet(r) ==
    /\ runs[r].pc = "idle"
    /\ runs' = [runs EXCEPT ![r] =
                   IF ~disabled /\ target \in DOMAIN cache
                   THEN Run("done", cache[target], EmptyMap, "")
                   ELSE Run("compile", <<>>, EmptyMap, "")]
    /\ UNCHANGED <<cache, disabled>>

\* what compileFile holds after e.compile(content)
FileCompiled(c) ==
    IF c.err # "" THEN Run("failed", <<>>, EmptyMap, "")
    ELSE Run(IF c.extends # <<>> THEN "resolving" ELSE "parse", c.compiled, c.sections, Str(c.extends))

\* Engine.compileFile of call r, up to compileWithInheritance or template.Parse
RunCompileFile(r) ==
    /\ runs[r].pc = "compile"
    /\ runs' = [runs EXCEPT ![r] = FileCompiled(compile(fs[target]))]
    /\ UNCHANGED <<cache, disabled>>

\* what one call of compileWithInheritance passes on, the childSections map
\* iterated in the given order
ParentResolved(p, merged, order) ==
    Run(IF p.extends # <<>> THEN "resolving" ELSE "parse",
        SpliceAll(p.compiled, p.sections, merged, order), merged, Str(p.extends))

ParentCompiled(run, p) ==
    IF p.err # "" THEN {Run("failed", <<>>, EmptyMap, "")}
    ELSE {ParentResolved(p, MergeSections(run.sections, p.sections), order) :
             order \in MapOrders(DOMAIN run.sections \cup DOMAIN p.sections)}

\* one call of Engine.compileWithInheritance of call r
RunCompileWithInheritance(r) ==
    /\ runs[r].pc = "resolving"
    /\ IF runs[r].next \notin DOMAIN fs
       THEN runs' = [runs EXCEPT ![r] = Run("failed", <<>>, EmptyMap, "")]
       ELSE \E run \in ParentCompiled(runs[r], compile(fs[runs[r].next])) :
                runs' = [runs EXCEPT ![r] = run]
    /\ UNCHANGED <<cache, disabled>>

\* template.New(name).Funcs(e.functions).Parse(program) at the end of
\* compileFile / compileWithInheritance
RunParse(r) ==
    /\ runs[r].pc = "parse"
    /\ runs' = [runs EXCEPT ![r].pc = IF ParseTemplate(runs[r].program).err # "" THEN "failed" ELSE "set"]
    /\ UNCHANGED <<cache, disabled>>

\* getTemplate: e.cache.Set(name, tmpl, modTime, checksum) and the return
CacheSet(r) ==
    /\ runs[r].pc = "set"
    /\ cache' = IF disabled THEN cache ELSE MapSet(cache, target, runs[r].program)
    /\ runs' = [runs EXCEPT ![r].pc = "done"]
    /\ UNCHANGED disabled

GetTemplateStep(r) ==
    \/ CacheGet(r) \/ RunCompileFile(r) \/ RunCompileWithInheritance(r)
    \/ RunParse(r) \/ CacheSet(r)

NextGetTemplate ==
    /\ \E r \in Runs : GetTemplateStep(r)
    /\ UNCHANGED <<renderVars, inheritVars, loopVars, contextVars, engineVars>>
SpecGetTemplate == InitGetTemplate /\ [][NextGetTemplate]_vars

\* --- C11 ------------------------------------------------------------------
HasProgram(r) == runs[r].pc \in {"parse", "set", "done"}

\* C11: two calls that compile the same unchanged files, one after the other
\* or racing, end with the same program, whatever the order in which each
\* walked the merged section map; the cached program is that program.
C11_CompileIsPure ==
    /\ \A a, b \in Runs : (HasProgram(a) /\ HasProgram(b)) => runs[a].program = runs[b].program
    /\ \A a \in Runs : (HasProgram(a) /\ target \in DOMAIN cache) => cache[target] = runs[a].program

(***************************************************************************)
(* SpecContext: the methods of runtime.Context on a Context c and, once    *)
(* c.Clone() is called, on its clone c2.  Go maps and slices are           *)
(* references: a Context field holds the number of a map in heap.maps, a   *)
(* slice is a header [arr, len, cap] over a backing array in heap.arrays,  *)
(* so that two Contexts sharing a map or an array is a state of the model. *)
(***************************************************************************)
MaxOps == 4
MaxInitPushes == 3

Key == "k"
Contents == {"a", "b"}

NilSlice == [arr |-> 0, len |-> 0, cap |-> 0]
Elems(h, s) == IF s.len = 0 THEN <<>> ELSE SubSeq(h.arrays[s.arr], 1, s.len)
Zeroes(n) == [i \in 1..n |-> ""]

NewHeap == [maps |-> <<>>, arrays |-> <<>>]

\* make(map[K]V), or a map literal: the new map is number Len(h.maps) + 1
make(h, m) == [h EXCEPT !.maps = Append(@, m)]

\* m[k] = v on the map with reference ref
mapassign(h, ref, k, v) == [h EXCEPT !.maps[ref] = MapSet(@, k, v)]

\* m[k] of a map of slices: the nil slice if k is absent
mapaccess(h, ref, k) == IF k \in DOMAIN h.maps[ref] THEN h.maps[ref][k] ELSE NilSlice

\* the capacity runtime.growslice picks (below 256 elements; the size classes
\* of up to 8 strings are exact)
growcap(oldcap, needed) == IF needed > 2 * oldcap THEN needed ELSE 2 * oldcap

\* append(s, xs...): in place while the capacity lasts, else into a new array
GoAppend(h, s, xs) ==
    IF xs = <<>> THEN [h |-> h, s |-> s]
    ELSE IF s.len + Len(xs) <= s.cap
    THEN [h |-> [h EXCEPT !.arrays[s.arr] =
                    [i \in 1..s.cap |-> IF i > s.len /\ i <= s.len + Len(xs) THEN xs[i - s.len] ELSE @[i]]],
          s |-> [s EXCEPT !.len = @ + Len(xs)]]
    ELSE [h |-> [h EXCEPT !.arrays =
                    Append(@, Elems(h, s) \o xs
                              \o Zeroes(growcap(s.cap, s.len + Len(xs)) - s.len - Len(xs)))],
          s |-> [arr |-> Len(h.arrays) + 1, len |-> s.len + Len(xs),
                 cap |-> growcap(s.cap, s.len + Len(xs))]]

\* runtime.NewContext: five empty maps
ContextAt(n) == [data |-> n + 1, stacks |-> n + 2, sections |-> n + 3, errors |-> n + 4, old |-> n + 5]
NewContext(h) == make(make(make(make(make(h, EmptyMap), EmptyMap), EmptyMap), EmptyMap), EmptyMap)

\* Context.Set
Set(h, c, key, value) == mapassign(h, c.data, key, value)

\* Context.Merge
RECURSIVE MergeKeys(_, _, _, _)
MergeKeys(h, c, data, keys) ==
    IF keys = {} THEN h
    ELSE LET k == CHOOSE x \in keys : TRUE
         IN MergeKeys(mapassign(h, c.data, k, data[k]), c, data, keys \ {k})
Merge(h, c, data) == MergeKeys(h, c, data, DOMAIN data)

\* Context.PushStack: c.stacks[name] = append(c.stacks[name], content)
PushStack(h, c, name, content) ==
    LET store(r) == mapassign(r.h, c.stacks, name, r.s)
    IN store(GoAppend(h, mapaccess(h, c.stacks, name), <<content>>))

\* Context.PrependStack: c.stacks[name] = append([]string{content}, c.stacks[name]...)
PrependStack(h, c, name, content) ==
    LET store(r) == mapassign(r.h, c.stacks, name, r.s)
        literal(h1) == store(GoAppend(h1, [arr |-> Len(h1.arrays), len |-> 1, cap |-> 1],
                                      Elems(h, mapaccess(h, c.stacks, name))))
    IN literal([h EXCEPT !.arrays = Append(@, <<content>>)])

\* Context.SetSection
SetSection(h, c, name, content) == mapassign(h, c.sections, name, content)

\* the caller's argument of SetErrors, built as a map literal
ErrorsLiterals == {<<>>, <<"e">>, <<"e", "f">>}
ErrorsLiteral(h, msgs) ==
    IF msgs = <<>> THEN make(h, EmptyMap)
    ELSE make([h EXCEPT !.arrays = Append(@, msgs)],
              MapSet(EmptyMap, Key, [arr |-> Len(h.arrays) + 1, len |-> Len(msgs), cap |-> Len(msgs)]))

\* Context.SetErrors and Context.SetOld: the field takes the caller's map
SetErrors(c, errors) == [c EXCEPT !.errors = errors]
SetOld(c, old) == [c EXCEPT !.old = old]

\* Clone of the mutant kind: the slice header is copied, the array shared
ShareSlice(h, dst, k, v) == mapassign(h, dst, k, v)

\* Clone: newCtx.stacks[k] = append([]string(nil), v...)
CopySlice(h, dst, k, v) ==
    LET store(r) == mapassign(r.h, dst, k, r.s)
    IN store(GoAppend(h, NilSlice, Elems(h, v)))

RECURSIVE CopySlices(_, _, _, _)
CopySlices(h, src, dst, keys) ==
    IF keys = {} THEN h
    ELSE LET k == CHOOSE x \in keys : TRUE
         IN CopySlices(CopySlice(h, dst, k, h.maps[src][k]), src, dst, keys \ {k})

\* Clone: for k, v := range c.data { newCtx.data[k] = v }
RECURSIVE CopyEntries(_, _, _, _)
CopyEntries(h, src, dst, keys) ==
    IF keys = {} THEN h
    ELSE LET k == CHOOSE x \in keys : TRUE
         IN CopyEntries(mapassign(h, dst, k, h.maps[src][k]), src, dst, keys \ {k})

\* Context.Clone: the heap after it; the clone is ContextAt(Len(h.maps))
CopyInto(h, c, n) ==
    CopyEntries(
        CopySlices(
            CopyEntries(
                CopySlices(
                    CopyEntries(h, c.data, n.data, DOMAIN h.maps[c.data]),
                    c.stacks, n.stacks, DOMAIN h.maps[c.stacks]),
                c.sections, n.sections, DOMAIN h.maps[c.sections]),
            c.errors, n.errors, DOMAIN h.maps[c.errors]),
        c.old, n.old, DOMAIN h.maps[c.old])
Clone(h, c) == CopyInto(NewContext(h), c, ContextAt(Len(h.maps)))

\* what the accessors of a Context return: Get / Has / Data, GetStack,
\* GetSection / HasSection, GetErrors / HasError / GetError, GetOld
SliceMap(h, ref) == [k \in DOMAIN h.maps[ref] |-> Elems(h, h.maps[ref][k])]
View(h, c) ==
    [data |-> h.maps[c.data], stacks |-> SliceMap(h, c.stacks), sections |-> h.maps[c.sections],
     errors |-> SliceMap(h, c.errors), old |-> h.maps[c.old]]
Views == [j \in 1..Len(ctx) |-> View(heap, ctx[j])]

RECURSIVE PushN(_, _, _)
PushN(h, c, n) == IF n = 0 THEN h ELSE PushStack(PushN(h, c, n - 1), c, Key, "a")

\* c := runtime.NewContext(), with up to MaxInitPushes calls of c.PushStack
InitContext ==
    /\ ctx = <<ContextAt(0)>>
    /\ \E n \in 0..MaxInitPushes : heap = PushN(NewContext(NewHeap), ContextAt(0), n)
    /\ lastOp = [on |-> 0, op |-> "NewContext", before |-> <<>>]
    /\ nops = 0
    /\ input = NoInput /\ phase = "none" /\ program = <<>> /\ result = NoResult
    /\ InheritIdle /\ LoopIdle /\ CacheIdle /\ EngineIdle

Called(i, op) ==
    /\ nops < MaxOps
    /\ nops' = nops + 1
    /\ lastOp' = [on |-> i, op |-> op, before |-> Views]

CallSet(i) ==
    /\ Called(i, "Set")
    /\ \E v \in Contents : heap' = Set(heap, ctx[i], Key, v)
    /\ UNCHANGED ctx

CallMerge(i) ==
    /\ Called(i, "Merge")
    /\ \E data \in {EmptyMap, MapSet(EmptyMap, Key, "b")} : heap' = Merge(heap, ctx[i], data)
    /\ UNCHANGED ctx

CallPushStack(i) ==
    /\ Called(i, "PushStack")
    /\ \E v \in Contents : heap' = PushStack(heap, ctx[i], Key, v)
    /\ UNCHANGED ctx

CallPrependStack(i) ==
    /\ Called(i, "PrependStack")
    /\ \E v \in Contents : heap' = PrependStack(heap, ctx[i], Key, v)
    /\ UNCHANGED ctx

CallSetSection(i) ==
    /\ Called(i, "SetSection")
    /\ \E v \in Contents : heap' = SetSection(heap, ctx[i], Key, v)
    /\ UNCHANGED ctx

\* SetErrors with a map literal, or with the map GetErrors of a Context returned
CallSetErrors(i) ==
    /\ Called(i, "SetErrors")
    /\ \/ \E msgs \in ErrorsLiterals :
             /\ heap' = ErrorsLiteral(heap, msgs)
             /\ ctx' = [ctx EXCEPT ![i] = SetErrors(@, Len(heap.maps) + 1)]
       \/ \E j \in 1..Len(ctx) :
             /\ ctx' = [ctx EXCEPT ![i] = SetErrors(@, ctx[j].errors)]
             /\ UNCHANGED heap

CallSetOld(i) ==
    /\ Called(i, "SetOld")
    /\ \E v \in Contents :
          /\ heap' = make(heap, MapSet(EmptyMap, Key, v))
          /\ ctx' = [ctx EXCEPT ![i] = SetOld(@, Len(heap.maps) + 1)]

\* c2 := c.Clone()
CallClone ==
    /\ Len(ctx) = 1
    /\ Called(1, "Clone")
    /\ heap' = Clone(heap, ctx[1])
    /\ ctx' = Append(ctx, ContextAt(Len(heap.maps)))

ContextCall(i) ==
    \/ CallSet(i) \/ CallMerge(i) \/ CallPushStack(i) \/ CallPrependStack(i)
    \/ CallSetSection(i) \/ CallSetErrors(i) \/ CallSetOld(i)

NextContext ==
    /\ \/ \E i \in 1..Len(ctx) : ContextCall(i)
       \/ CallClone
    /\ UNCHANGED <<renderVars, inheritVars, loopVars, cacheVars, engineVars>>
SpecContext == InitContext /\ [][NextContext]_vars

\* --- C12 ------------------------------------------------------------------
\* C12: once c2 = c.Clone() exists, a Set, Merge, PushStack, PrependStack,
\* SetSection, SetErrors or SetOld on one of the two Contexts leaves every
\* accessor of the other returning what it returned before the call; and the
\* clone starts out returning what c returns.
C12_CloneIsolates ==
    /\ (Len(ctx) = 2 /\ Len(lastOp.before) = 2) =>
           \A j \in {1, 2} \ {lastOp.on} : View(heap, ctx[j]) = lastOp.before[j]
    /\ (Len(ctx) = 2 /\ lastOp.op = "Clone") => View(heap, ctx[2]) = View(heap, ctx[1])

\* c, holding a stack with spare capacity, was cloned, and a PushStack on the
\* clone has made the clone's stack differ from c's
C12_Witness ==
    /\ Len(ctx) = 2 /\ lastOp.on = 2 /\ lastOp.op = "PushStack"
    /\ mapaccess(heap, ctx[1].stacks, Key).len = 3
    /\ mapaccess(heap, ctx[1].stacks, Key).cap = 4
    /\ View(heap, ctx[2]).stacks[Key] = View(heap, ctx[1]).stacks[Key] \o <<"b">>

(***************************************************************************)
(* SpecEngine: goroutines calling Engine.Render and the reconfiguring      *)
(* methods on one engine.  A method is the sequence of its lock            *)
(* operations and of its accesses to the engine's shared fields; an access *)
(* takes two steps (it begins, it ends), so that two accesses overlapping  *)
(* is a state.  reg is the value the goroutine last read.                  *)
(***************************************************************************)
MaxCalls == 1
Renderers == {1, 2}
Configurer == Cardinality(Renderers) + 1
Goroutines == Renderers \cup {Configurer}
TemplateName == "t"

CacheMu == "cache.mu"
EngineMutex == "engine.mutex"
SharedMu == "shared.mu"
Mutexes == {CacheMu, EngineMutex, SharedMu}

\* the lock that guards each shared field
Guard(loc) ==
    CASE loc \in {"cache.disabled", "cache.templates"} -> CacheMu
      [] loc = "engine.functions" -> EngineMutex
      [] loc = "shared.data" -> SharedMu

Ins(op, x, val, n) == [op |-> op, x |-> x, val |-> val, n |-> n]
Read(loc) == Ins("read", loc, FALSE, 0)
Write(loc, val) == Ins("write", loc, val, 0)
RLock(m) == Ins("rlock", m, FALSE, 0)
RUnlock(m) == Ins("runlock", m, FALSE, 0)
Lock(m) == Ins("lock", m, FALSE, 0)
Unlock(m) == Ins("unlock", m, FALSE, 0)
\* if reg = when: skip the next n instructions and continue with reg = val
SkipIf(when, n, val) == Ins("skipIf", when, val, n)

\* TemplateCache.Get: reg is ok when it returns
TemplateCacheGet ==
    << Read("cache.disabled"), SkipIf(TRUE, 3, FALSE),
       RLock(CacheMu), Read("cache.templates"), RUnlock(CacheMu) >>

\* TemplateCache.IsValid: reg is its result (the file is not modified)
TemplateCacheIsValid ==
    << Read("cache.disabled"), SkipIf(TRUE, Len(TemplateCacheGet), FALSE) >> \o TemplateCacheGet

\* TemplateCache.Set
TemplateCacheSet ==
    << Read("cache.disabled"), SkipIf(TRUE, 3, TRUE),
       Lock(CacheMu), Write("cache.templates", TRUE), Unlock(CacheMu) >>

\* Engine.compileFile: template.New(name).Funcs(e.functions).Parse(compiled)
EngineCompileFile == << Read("engine.functions") >>

\* Engine.getTemplate
EngineGetTemplate ==
    TemplateCacheGet
    \o << SkipIf(FALSE, Len(TemplateCacheIsValid) + 1, FALSE) >>
    \o TemplateCacheIsValid
    \o << SkipIf(TRUE, Len(EngineCompileFile) + Len(TemplateCacheSet), TRUE) >>
    \o EngineCompileFile \o TemplateCacheSet

\* Engine.prepareData: e.shared.All()
EnginePrepareData == << RLock(SharedMu), Read("shared.data"), RUnlock(SharedMu) >>

\* Engine.Render
EngineRender == EngineGetTemplate \o EnginePrepareData

\* Engine.RenderTemplate
EngineRenderTemplate == << Read("engine.functions") >> \o EnginePrepareData

\* Engine.AddFunction, TemplateCache.Disable / Enable / Clear, Engine.Share
EngineAddFunction == << Lock(EngineMutex), Write("engine.functions", TRUE), Unlock(EngineMutex) >>
TemplateCacheDisable == << Lock(CacheMu), Write("cache.disabled", TRUE), Unlock(CacheMu) >>
TemplateCacheEnable == << Lock(CacheMu), Write("cache.disabled", FALSE), Unlock(CacheMu) >>
TemplateCacheClear == << Lock(CacheMu), Write("cache.templates", FALSE), Unlock(CacheMu) >>
EngineShare == << Lock(SharedMu), Write("shared.data", TRUE), Unlock(SharedMu) >>

Methods(g) ==
    IF g \in Renderers THEN {EngineRender, EngineRenderTemplate}
    ELSE {EngineAddFunction, TemplateCacheDisable, TemplateCacheEnable, TemplateCacheClear, EngineShare}

Goroutine(code, pc, reg, acc, calls) == [code |-> code, pc |-> pc, reg |-> reg, acc |-> acc, calls |-> calls]
Unlocked == [w |-> 0, r |-> {}]

InitEngine ==
    /\ thr = [g \in Goroutines |-> Goroutine(<<>>, 1, FALSE, FALSE, 0)]
    /\ locks = [m \in Mutexes |-> Unlocked]
    /\ cache = EmptyMap
    /\ disabled \in BOOLEAN
    /\ runs = <<>>
    /\ input = NoInput /\ phase = "none" /\ program = <<>> /\ result = NoResult
    /\ InheritIdle /\ LoopIdle /\ ContextIdle

Running(g) == thr[g].pc <= Len(thr[g].code)
At(g) == thr[g].code[thr[g].pc]

\* a goroutine calls a method of the engine
StartCall(g) ==
    /\ ~Running(g)
    /\ thr[g].calls < MaxCalls
    /\ \E code \in Methods(g) :
          thr' = [thr EXCEPT ![g] = Goroutine(code, 1, FALSE, FALSE, thr[g].calls + 1)]
    /\ UNCHANGED <<locks, cache, disabled>>

\* mu.RLock() and mu.Lock()
Acquire(g) ==
    /\ Running(g)
    /\ \/ /\ At(g).op = "rlock"
          /\ locks[At(g).x].w = 0
          /\ locks' = [locks EXCEPT ![At(g).x].r = @ \cup {g}]
       \/ /\ At(g).op = "lock"
          /\ locks[At(g).x] = Unlocked
          /\ locks' = [locks EXCEPT ![At(g).x].w = g]
    /\ thr' = [thr EXCEPT ![g].pc = @ + 1]
    /\ UNCHANGED <<cache, disabled>>

\* mu.RUnlock() and mu.Unlock()
Release(g) ==
    /\ Running(g)
    /\ \/ /\ At(g).op = "runlock"
          /\ locks' = [locks EXCEPT ![At(g).x].r = @ \ {g}]
       \/ /\ At(g).op = "unlock"
          /\ locks' = [locks EXCEPT ![At(g).x].w = 0]
    /\ thr' = [thr EXCEPT ![g].pc = @ + 1]
    /\ UNCHANGED <<cache, disabled>>

\* a read or a write of a shared field begins
BeginAccess(g) ==
    /\ Running(g)
    /\ At(g).op \in {"read", "write"}
    /\ ~thr[g].acc
    /\ thr' = [thr EXCEPT ![g].acc = TRUE]
    /\ UNCHANGED <<locks, cache, disabled>>

\* the value a read returns
Loaded(g) ==
    CASE At(g).x = "cache.disabled" -> disabled
      [] At(g).x = "cache.templates" -> TemplateName \in DOMAIN cache
      [] OTHER -> thr[g].reg

\* the read or the write ends
EndAccess(g) ==
    /\ Running(g)
    /\ thr[g].acc
    /\ IF At(g).op = "read"
       THEN /\ thr' = [thr EXCEPT ![g].acc = FALSE, ![g].pc = @ + 1, ![g].reg = Loaded(g)]
            /\ UNCHANGED <<cache, disabled>>
       ELSE /\ thr' = [thr EXCEPT ![g].acc = FALSE, ![g].pc = @ + 1]
            /\ disabled' = IF At(g).x = "cache.disabled" THEN At(g).val ELSE disabled
            /\ cache' = IF At(g).x # "cache.templates" THEN cache
                        ELSE IF At(g).val THEN MapSet(cache, TemplateName, <<>>) ELSE EmptyMap
    /\ UNCHANGED locks

\* an early return or an if of the method
Branch(g) ==
    /\ Running(g)
    /\ At(g).op = "skipIf"
    /\ thr' = IF thr[g].reg = At(g).x
              THEN [thr EXCEPT ![g].pc = @ + 1 + At(g).n, ![g].reg = At(g).val]
              ELSE [thr EXCEPT ![g].pc = @ + 1]
    /\ UNCHANGED <<locks, cache, disabled>>

NextEngine ==
    /\ \E g \in Goroutines :
          StartCall(g) \/ Acquire(g) \/ Release(g) \/ BeginAccess(g) \/ EndAccess(g) \/ Branch(g)
    /\ UNCHANGED <<renderVars, inheritVars, loopVars, contextVars, runs>>
SpecEngine == InitEngine /\ [][NextEngine]_vars

\* --- C13 ------------------------------------------------------------------
Accessing(g, loc) == Running(g) /\ thr[g].acc /\ At(g).x = loc
Holds(g, m, op) == locks[m].w = g \/ (op = "read" /\ g \in locks[m].r)
SharedFields == {"cache.disabled", "cache.templates", "engine.functions", "shared.data"}

\* no read of a shared field overlaps a write of it by another goroutine
NoOverlappingWrite ==
    \A g, h \in DOMAIN thr : \A loc \in SharedFields :
        (g # h /\ Accessing(g, loc) /\ Accessing(h, loc)) =>
            (At(g).op = "read" /\ At(h).op = "read")

\* C13: a goroutine reading or writing the template cache (its disabled flag
\* included), the function registry or the shared-data table holds that
\* field's lock, for reading or for writing as the access requires; and no
\* read of a field overlaps a write of it.
C13_AccessUnderLock ==
    /\ NoOverlappingWrite
    /\ \A g \in DOMAIN thr : \A loc \in SharedFields :
           Accessing(g, loc) => Holds(g, Guard(loc), At(g).op)

(***************************************************************************)
(* SpecVerbatim: Engine.RenderTemplate on "@verbatim" X "@endverbatim"     *)
(***************************************************************************)
MaxVerbatimLen == 5
VerbatimAlphabet == {"{", "}", "m", "1", " "}

VerbatimTemplate(x) ==
    <<"@","v","e","r","b","a","t","i","m">> \o x \o <<"@","e","n","d","v","e","r","b","a","t","i","m">>

VerbatimInputs ==
    {[fam |-> "verbatim", tpl |-> VerbatimTemplate(x), content |-> x, data |-> NoData] :
        x \in SeqsUpTo(VerbatimAlphabet, MaxVerbatimLen)}

InitVerbatim ==
    /\ input \in VerbatimInputs
    /\ phase = "new" /\ program = <<>> /\ result = NoResult
    /\ InheritIdle /\ LoopIdle /\ AuxIdle

SpecVerbatim == InitVerbatim /\ [][NextRender]_vars

\* --- C14 ------------------------------------------------------------------
TokenTypes(ts) == [i \in 1..Len(ts) |-> ts[i].type]

\* the tokens of a verbatim block around content: the content is one TEXT token
OneTextToken(lexed, content) ==
    /\ lexed.err = NoError
    /\ IF content = <<>>
       THEN TokenTypes(lexed.tokens) = <<"VERBATIM_START", "VERBATIM_END", "EOF">>
       ELSE /\ TokenTypes(lexed.tokens) = <<"VERBATIM_START", "TEXT", "VERBATIM_END", "EOF">>
            /\ lexed.tokens[2].value = content

\* the directive name ends at the first character that is no letter, digit
\* or "_": only then is the directive @verbatim
VerbatimOpens(content) == content = <<>> \/ ~IsIdentChar(content[1])

\* C14: the characters between @verbatim and @endverbatim are one TEXT token,
\* whatever they are, and the rendered output is those characters unchanged.
C14_VerbatimPassthrough ==
    (input.fam = "verbatim" /\ VerbatimOpens(input.content)) =>
        /\ OneTextToken(Tokenize(input.tpl), input.content)
        /\ (phase = "done" /\ RenderModelled) => result = [out |-> input.content, err |-> ""]

\* C14, the lexer's half alone: the content is one TEXT token
C14_VerbatimOneToken ==
    (input.fam = "verbatim" /\ VerbatimOpens(input.content)) =>
        OneTextToken(Tokenize(input.tpl), input.content)

(***************************************************************************)
(* SpecLex: Lexer.Tokenize on bounded inputs.  result is [tokens, err].    *)
(***************************************************************************)
MaxUnits == 3
MaxTailLen == 2
MaxArgLen == 4

\* --- inputs built from pieces of template text, to be cut into tokens
LexUnits ==
    { <<"a">>, <<"\n">>, <<" ">>, <<"0xC3", "0xA9">>, <<"@", "@">>,
      <<"{", "{", " ", "x", " ", "}", "}">>, <<"{", "!", "!", "x", "!", "!", "}">>,
      <<"{", "{", "-", "-", "c", "-", "-", "}", "}">>,
      <<"@", "i", "f", "(", "x", ")">>, <<"@", "e", "l", "s", "e">>,
      <<"@","v","e","r","b","a","t","i","m"," ","{","{","@","e","n","d","v","e","r","b","a","t","i","m">> }

UnitInputs ==
    {[fam |-> "units", tpl |-> Concat(us)] : us \in SeqsUpTo(LexUnits, MaxUnits)}

\* --- inputs that open a construct and never close it
Openers ==
    { <<"{", "{", "-", "-">>, <<"{", "{">>, <<"{", "!", "!">>,
      <<"@","v","e","r","b","a","t","i","m">>, <<"@", "i", "f", "(">> }

Closer(opener) ==
    CASE opener = <<"{", "{", "-", "-">> -> <<"-", "-", "}", "}">>
      [] opener = <<"{", "{">> -> <<"}", "}">>
      [] opener = <<"{", "!", "!">> -> <<"!", "!", "}">>
      [] opener = <<"@","v","e","r","b","a","t","i","m">> -> <<"@","e","n","d","v","e","r","b","a","t","i","m">>
      [] opener = <<"@", "i", "f", "(">> -> <<")">>

\* the tail leaves the opener open: it holds no closer, and no character that
\* would make the directive's name a longer one
StaysOpen(o, t) ==
    /\ IndexOf(o \o t, Closer(o)) < 0
    /\ (o[1] = "@" /\ o[Len(o)] # "(") => (t = <<>> \/ ~IsIdentChar(t[1]))

OpenInputs ==
    {in \in {[fam |-> "open", tpl |-> pre \o o \o tail, at |-> Len(pre), opener |-> o, tail |-> tail] :
                pre \in {<<>>, <<"a">>, <<"a", "\n">>}, o \in Openers,
                tail \in SeqsUpTo({"a", " ", "}", "-", "\n"}, MaxTailLen)} :
        StaysOpen(in.opener, in.tail)}

\* --- a directive with an argument list
ArgAlphabet == {"(", ")", "'", "\"", "\\", "a", " "}

ArgInputs ==
    {[fam |-> "args", tpl |-> <<"@", "i", "f", "(">> \o b, body |-> b] :
        b \in SeqsUpTo(ArgAlphabet, MaxArgLen)}

LexInputs == UnitInputs \cup OpenInputs \cup ArgInputs

InitLex ==
    /\ input \in LexInputs
    /\ phase = "new" /\ program = <<>> /\ result = NoResult
    /\ InheritIdle /\ LoopIdle /\ AuxIdle

\* lexer.New(input.tpl).Tokenize()
TokenizeCall ==
    /\ phase = "new"
    /\ result' = Tokenize(input.tpl)
    /\ phase' = "done"
    /\ UNCHANGED <<input, program, inheritVars, loopVars, auxVars>>

NextLex == TokenizeCall
SpecLex == InitLex /\ [][NextLex]_vars

\* --- positions, counted from the input ---------------------------------------
\* the line of the byte at offset off: 1 plus the newlines before it
LineAt(s, off) == 1 + Cardinality({i \in 1..off : s[i] = "\n"})
LineStart(s, off) ==
    LET nls == {i \in 1..off : s[i] = "\n"}
    IN IF nls = {} THEN 0 ELSE CHOOSE i \in nls : \A j \in nls : j <= i
\* 1 plus the bytes, and 1 plus the characters, between the line's start and off
ByteColumnAt(s, off) == 1 + off - LineStart(s, off)
CharColumnAt(s, off) ==
    1 + Cardinality({i \in (LineStart(s, off) + 1)..off : ~IsContinuationByte(s[i])})

\* does the text of a token of this type and value begin at offset off
StartsAt(s, tok, off) ==
    CASE tok.type = "TEXT" ->
            HasPrefixAt(s, off, tok.value)
            \/ (tok.value = <<"@">> /\ HasPrefixAt(s, off, <<"@", "@">>))
      [] tok.type = "ECHO_ESCAPED" -> HasPrefixAt(s, off, <<"{", "{">>)
      [] tok.type = "ECHO_RAW" -> HasPrefixAt(s, off, <<"{", "!", "!">>)
      [] tok.type = "COMMENT" -> HasPrefixAt(s, off, <<"{", "{", "-", "-">>)
      [] tok.type \in {"DIRECTIVE", "DIRECTIVE_ARGS", "VERBATIM_START"} ->
            HasPrefixAt(s, off, <<"@">> \o tok.value)
      [] tok.type = "VERBATIM_END" -> HasPrefixAt(s, off, <<"@">> \o tok.value)
      [] tok.type = "EOF" -> off = Len(s)

\* offsets and lines of the tokens, the order of the tokens, the one EOF
OffsetsExact(s, ts) ==
    /\ ts # <<>>
    /\ \A i \in 1..Len(ts) :
           /\ ts[i].position.offset \in 0..Len(s)
           /\ StartsAt(s, ts[i], ts[i].position.offset)
           /\ ts[i].position.line = LineAt(s, ts[i].position.offset)
           /\ (ts[i].type = "EOF") = (i = Len(ts))
    /\ \A i \in 1..(Len(ts) - 1) : ts[i].position.offset < ts[i + 1].position.offset
    /\ ts[Len(ts)].position.offset = Len(s)

Tokenized == phase = "done" /\ result.err = NoError

\* --- C17 ------------------------------------------------------------------
\* C17 as stated: every token is positioned at its first character (offset
\* in bytes, line, column in characters), offsets increase strictly, and the
\* sequence ends with its one EOF token, at the end of the input.
C17_TokenPositions ==
    (input.fam = "units" /\ Tokenized) =>
        /\ OffsetsExact(input.tpl, result.tokens)
        /\ \A i \in 1..Len(result.tokens) :
               result.tokens[i].position.column =
                   CharColumnAt(input.tpl, result.tokens[i].position.offset)

\* the same with the column counted in bytes: Column is 1 plus the number of
\* bytes between the start of the line and the token (holds)
C17_TokenPositionsInBytes ==
    (input.fam = "units" /\ Tokenized) =>
        /\ OffsetsExact(input.tpl, result.tokens)
        /\ \A i \in 1..Len(result.tokens) :
               result.tokens[i].position.column =
                   ByteColumnAt(input.tpl, result.tokens[i].position.offset)

\* --- C15 ------------------------------------------------------------------
\* C15: an input that opens a comment, an echo, a raw echo, a verbatim block
\* or an argument list and never closes it, the input ending right after the
\* opener included, makes Tokenize fail with a LexerError that carries a
\* position of the input, and return no tokens.
C15_UnterminatedFails ==
    (input.fam = "open" /\ phase = "done") =>
        /\ result.err # NoError
        /\ result.tokens = <<>>
        /\ result.err.position.offset \in input.at..Len(input.tpl)
        /\ result.err.position.line = LineAt(input.tpl, result.err.position.offset)
        /\ result.err.position.column = ByteColumnAt(input.tpl, result.err.position.offset)

\* --- C16 ------------------------------------------------------------------
\* the quote open after the first i characters of the argument text b: a quote
\* character that no backslash precedes opens a literal, or closes the literal
\* its kind opened
RECURSIVE QuoteAfter(_, _)
QuoteAfter(b, i) ==
    IF i = 0 THEN ""
    ELSE LET q == QuoteAfter(b, i - 1)
         IN IF b[i] \in {"'", "\""} /\ (i = 1 \/ b[i - 1] # "\\")
            THEN IF q = "" THEN b[i] ELSE IF q = b[i] THEN "" ELSE q
            ELSE q

\* the parentheses open after the first i characters, the directive's own included
ParenDepth(b, i) ==
    1 + Cardinality({j \in 1..i : b[j] = "(" /\ QuoteAfter(b, j) = ""})
      - Cardinality({j \in 1..i : b[j] = ")" /\ QuoteAfter(b, j) = ""})

\* the index in b of the parenthesis that closes the directive's, 0 if none
MatchingClose(b) ==
    LET closes == {i \in 1..Len(b) : ParenDepth(b, i) = 0}
    IN IF closes = {} THEN 0 ELSE CHOOSE i \in closes : \A j \in closes : i <= j

\* the token of the directive, and where the lexer went on
ArgsToken(ts, b, args) ==
    /\ Len(ts) >= 2
    /\ ts[1].type = "DIRECTIVE_ARGS" /\ ts[1].value = <<"i", "f">>
    /\ ts[1].args = args
    /\ ts[2].position.offset = 4 + MatchingClose(b)

\* C16 as stated: Args is the text between the directive's "(" and its
\* matching ")", as it is in the input.
C16_ArgsRaw ==
    (input.fam = "args" /\ phase = "done" /\ MatchingClose(input.body) > 0) =>
        /\ result.err = NoError
        /\ ArgsToken(result.tokens, input.body,
                     SubSeq(input.body, 1, MatchingClose(input.body) - 1))

\* C16, amended: Args is that text with the white space at its two ends
\* removed; the lexer goes on right after the matching ")"; and an argument
\* list without a matching ")" is an error.
C16_ArgsTrimmed ==
    (input.fam = "args" /\ phase = "done") =>
        IF MatchingClose(input.body) > 0
        THEN /\ result.err = NoError
             /\ ArgsToken(result.tokens, input.body,
                          TrimSpace(SubSeq(input.body, 1, MatchingClose(input.body) - 1)))
        ELSE result.err # NoError

\* @if(')') was cut into the directive with Args ')' and the EOF token
C16_Witness ==
    /\ Tokenized
    /\ input.fam = "args" /\ input.body = <<"'", ")", "'", ")">>
    /\ result.tokens[1].args = <<"'", ")", "'">>
    /\ result.tokens[2].type = "EOF"

(***************************************************************************)
(* SpecParse: Engine.compile in its three steps, lexer.Tokenize,           *)
(* parser.Parse and compiler.Compile.  program is [ast, err], result is    *)
(* the lexer's and then the compiler's.                                    *)
(***************************************************************************)
MaxPieces == 4
MaxBody == 3

\* --- templates of nested, crossed and unclosed blocks
OpenerText(kind) ==
    CASE kind = "IF" -> <<"@", "i", "f", "(", "a", ")">>
      [] kind = "UNLESS" -> <<"@", "u", "n", "l", "e", "s", "s", "(", "a", ")">>
      [] kind = "SECTION" -> <<"@", "s", "e", "c", "t", "i", "o", "n", "(", "'", "s", "'", ")">>

BlockKinds == {"IF", "UNLESS", "SECTION"}

\* the directives that close a block of the kind
TerminatorsOf(kind) ==
    CASE kind = "IF" -> {"endif"}
      [] kind = "UNLESS" -> {"endunless"}
      [] kind = "SECTION" -> {"endsection", "show"}
      [] OTHER -> {}

BlockPieces ==
    {[k |-> "text", text |-> <<"!">>]}
    \cup {[k |-> "open", kind |-> kind, text |-> OpenerText(kind)] : kind \in BlockKinds}
    \cup {[k |-> "dir", name |-> n, text |-> DirectiveText(n)] :
            n \in {<<"e", "l", "s", "e">>, <<"e", "n", "d", "i", "f">>,
                   <<"e", "n", "d", "u", "n", "l", "e", "s", "s">>,
                   <<"e", "n", "d", "s", "e", "c", "t", "i", "o", "n">>}}

BlockInputs ==
    {[fam |-> "blocks", tpl |-> PiecesText(ps), pieces |-> ps] :
        ps \in SeqsUpTo(BlockPieces, MaxPieces)}

\* --- templates that begin with a @section
SectionArgs ==
    { [text |-> <<"'", "s", "'">>, arity |-> 1, content |-> <<>>],
      [text |-> <<"'", "s", "'", ",", " ", "'", "c", "'">>, arity |-> 2, content |-> <<"c">>],
      [text |-> <<"\"", "s", "\"", ",", "\"", "c", " ", "d", "\"">>, arity |-> 2, content |-> <<"c", " ", "d">>],
      [text |-> <<"'", "s", "'", ",", " ", "'", ",", "'">>, arity |-> 2, content |-> <<",">>],
      [text |-> <<"'", "s", "'", ",", " ", "'", "'">>, arity |-> 2, content |-> <<>>] }

BodyPieces ==
    {[k |-> "text", text |-> <<"!">>], [k |-> "text", text |-> <<"{", "{", "v", "}", "}">>]}
    \cup {[k |-> "dir", name |-> n, text |-> DirectiveText(n)] :
            n \in {<<"s", "h", "o", "w">>, <<"e", "n", "d", "s", "e", "c", "t", "i", "o", "n">>}}

SectionInputs ==
    {[fam |-> "section", args |-> a, body |-> b,
      tpl |-> <<"@", "s", "e", "c", "t", "i", "o", "n", "(">> \o a.text \o <<")">> \o PiecesText(b)] :
        a \in SectionArgs, b \in SeqsUpTo(BodyPieces, MaxBody)}

ParseInputs == BlockInputs \cup SectionInputs

InitParse ==
    /\ input \in ParseInputs
    /\ phase = "new" /\ program = <<>> /\ result = NoResult
    /\ InheritIdle /\ LoopIdle /\ AuxIdle

\* parser.New(tokens).Parse()
ParseCall ==
    /\ phase = "done" /\ result.err = NoError
    /\ program' = [ast |-> Parse(result.tokens), err |-> NoError]
    /\ phase' = "parsed"
    /\ UNCHANGED <<input, result, inheritVars, loopVars, auxVars>>

\* compiler.New().Compile(ast)
CompileCall ==
    /\ phase = "parsed" /\ program.err = NoError
    /\ result' = Compile(program.ast)
    /\ phase' = "compiled"
    /\ UNCHANGED <<input, program, inheritVars, loopVars, auxVars>>

NextParse == TokenizeCall \/ ParseCall \/ CompileCall
SpecParse == InitParse /\ [][NextParse]_vars

\* --- the tree ------------------------------------------------------------------
\* the nodes directly below a node
Kids(n) ==
    CASE n.nt = "IF" ->
            n.children \o Concat([i \in 1..Len(n.elseIfs) |-> n.elseIfs[i].children])
                       \o n.elseChildren
      [] n.nt \in {"UNLESS", "SECTION", "FOREACH", "PUSH", "PREPEND"} -> n.children
      [] n.nt = "FORELSE" -> n.children \o n.empty
      [] OTHER -> <<>>

\* some node of the list, or below it, is a terminator left as a plain
\* directive although a block of its kind (one of open, or one around it in
\* the list) was open when it was read
RECURSIVE StrayTerminator(_, _)
StrayTerminator(nodes, open) ==
    \E i \in 1..Len(nodes) :
        \/ /\ nodes[i].nt = "DIRECTIVE"
           /\ \E kind \in open : nodes[i].name \in TerminatorsOf(kind)
        \/ StrayTerminator(Kids(nodes[i]), open \cup {nodes[i].nt})

\* the template opens a block first and holds no terminator of its kind
Unterminated(ps) ==
    /\ ps # <<>> /\ ps[1].k = "open"
    /\ \A i \in 2..Len(ps) : ps[i].k = "dir" => Str(ps[i].name) \notin TerminatorsOf(ps[1].kind)

Parsed == phase \in {"parsed", "compiled"}

\* a block whose terminator is missing holds everything up to the end of the input
AutoClosed ==
    (input.fam = "blocks" /\ Parsed /\ Unterminated(input.pieces)) =>
        /\ Len(program.ast) = 1
        /\ program.ast[1].nt = input.pieces[1].kind

\* --- C18 ------------------------------------------------------------------
\* C18: Parse returns a tree and no error for every token sequence of the
\* lexer; a block whose terminator is missing is closed at the end of the
\* input, everything up to there below it; and a terminator is consumed by the
\* innermost open block of its kind, so none is left as a plain directive
\* below a block of its kind.
C18_LenientAutoClose ==
    /\ Parsed => program.err = NoError
    /\ AutoClosed
    /\ (input.fam = "blocks" /\ Parsed) => ~StrayTerminator(program.ast, {})

\* --- C19 ------------------------------------------------------------------
\* the index of the first @show or @endsection of the body, 0 if none
FirstTerminator(b) ==
    LET ends == {i \in 1..Len(b) : b[i].k = "dir"}
    IN IF ends = {} THEN 0 ELSE CHOOSE i \in ends : \A j \in ends : i <= j

ParseText(chars) == Parse(Tokenize(chars).tokens)

SectionNode(name, content, children, show) ==
    [nt |-> "SECTION", name |-> name, content |-> content, children |-> children, show |-> show]

\* the block form: children up to the body's k-th piece, which is consumed
BlockForm(ast, b, k) ==
    /\ ast # <<>>
    /\ ast[1] = SectionNode(<<"s">>, <<>>,
                            ParseText(PiecesText(SubSeq(b, 1, IF k = 0 THEN Len(b) ELSE k - 1))),
                            k > 0 /\ Str(b[k].name) = "show")
    /\ Tail(ast) = IF k = 0 THEN <<>> ELSE ParseText(PiecesText(SubSeq(b, k + 1, Len(b))))

\* the inline form: the content stored, the body parsed after the node
InlineForm(ast, b, content) ==
    /\ ast # <<>>
    /\ ast[1] = SectionNode(<<"s">>, content, <<>>, FALSE)
    /\ Tail(ast) = ParseText(PiecesText(b))

\* the inline form compiled: the section stored, the output that of the body
InlineCompiled(c, body, content) ==
    /\ "s" \in DOMAIN c.sections
    /\ c.sections["s"] = RawItems(content)
    /\ c.out = body.out

\* C19: @section with one argument parses its children up to @show or
\* @endsection and records in Show which one ended it; with two arguments it
\* stores the second as content, parses no children and consumes no
\* terminator, and compiling it stores the section under its name and
\* writes nothing in its place, the empty second argument included.
C19_SectionArity ==
    /\ (input.fam = "section" /\ Parsed) =>
           IF input.args.arity = 1
           THEN BlockForm(program.ast, input.body, FirstTerminator(input.body))
           ELSE InlineForm(program.ast, input.body, input.args.content)
    /\ (input.fam = "section" /\ phase = "compiled" /\ input.args.arity = 2) =>
           InlineCompiled(result, Compile(ParseText(PiecesText(input.body))), input.args.content)

\* @section('s', '')!@endsection was compiled: the section s is stored, empty,
\* and the output is that of !@endsection
C19_Witness ==
    /\ phase = "compiled"
    /\ input.fam = "section" /\ input.args.arity = 2 /\ input.args.content = <<>>
    /\ Len(input.body) = 2 /\ input.body[1].text = <<"!">>
    /\ input.body[2].k = "dir" /\ Str(input.body[2].name) = "endsection"
    /\ "s" \in DOMAIN result.sections /\ result.sections["s"] = <<>>
    /\ Len(program.ast) = 3
    /\ result.out # <<>>

(***************************************************************************)
(* SpecSplit: splitArgs on bounded argument strings.  result is [parts].   *)
(***************************************************************************)
MaxSplitLen == 4

SplitAlphabet == {",", "(", ")", "[", "'", "\"", "\\", "a", " "}

SplitInputs == {[fam |-> "split", tpl |-> a] : a \in SeqsUpTo(SplitAlphabet, MaxSplitLen)}

InitSplit ==
    /\ input \in SplitInputs
    /\ phase = "new" /\ program = <<>> /\ result = NoResult
    /\ InheritIdle /\ LoopIdle /\ AuxIdle

\* splitArgs(input.tpl)
SplitArgsCall ==
    /\ phase = "new"
    /\ result' = [parts |-> splitArgs(input.tpl)]
    /\ phase' = "done"
    /\ UNCHANGED <<input, program, inheritVars, loopVars, auxVars>>

NextSplit == SplitArgsCall
SpecSplit == InitSplit /\ [][NextSplit]_vars

\* the brackets open after the first i characters, those in quoted strings not
\* counted; a closing bracket without its opening one makes it negative
BracketDepth(s, i) ==
    Cardinality({j \in 1..i : s[j] \in {"(", "[", "{"} /\ QuoteAfter(s, j) = ""})
    - Cardinality({j \in 1..i : s[j] \in {")", "]", "}"} /\ QuoteAfter(s, j) = ""})

\* the commas at depth 0 and outside quoted strings
TopLevelCommas(s) ==
    {i \in 1..Len(s) : s[i] = "," /\ QuoteAfter(s, i) = "" /\ BracketDepth(s, i) = 0}

\* the m-th element of a set of numbers, in order
Nth(cs, m) == CHOOSE c \in cs : Cardinality({d \in cs : d <= c}) = m

\* the m-th segment of s cut at the commas cs
Segment(s, cs, m) ==
    SubSeq(s, IF m = 1 THEN 1 ELSE Nth(cs, m - 1) + 1,
              IF m = Cardinality(cs) + 1 THEN Len(s) ELSE Nth(cs, m) - 1)

\* the segments between the commas cs, trimmed, the first n of them
TrimmedSegments(s, cs, n) == [m \in 1..n |-> TrimSpace(Segment(s, cs, m))]

\* the number of segments, and of those less a final one that is empty
SegmentCount(s, cs) == Cardinality(cs) + 1
KeptCount(s, cs) ==
    IF Segment(s, cs, Cardinality(cs) + 1) = <<>> THEN Cardinality(cs) ELSE Cardinality(cs) + 1

\* --- C20 ------------------------------------------------------------------
\* C20 as stated: the pieces are, in order, the trimmed segments of the
\* argument string between its top-level commas (those at bracket depth 0 and
\* outside quoted strings).
C20_SplitAtTopLevelCommas ==
    (input.fam = "split" /\ phase = "done" /\ input.tpl # <<>>) =>
        result.parts = TrimmedSegments(input.tpl, TopLevelCommas(input.tpl),
                                       SegmentCount(input.tpl, TopLevelCommas(input.tpl)))

\* C20, amended: the same, but a final segment that is empty (the string is
\* empty or ends with a top-level comma) gives no piece.
C20_SplitDropsEmptyLast ==
    (input.fam = "split" /\ phase = "done") =>
        result.parts = TrimmedSegments(input.tpl, TopLevelCommas(input.tpl),
                                       KeptCount(input.tpl, TopLevelCommas(input.tpl)))

\* (,), was split at its last comma only, into the one piece (,)
C20_Witness ==
    /\ phase = "done" /\ input.fam = "split"
    /\ input.tpl = <<"(", ",", ")", ",">>
    /\ result.parts = << <<"(", ",", ")">> >>

(***************************************************************************)
(* SpecLoopStack: the Loop records behind their pointers, and a LoopStack. *)
(* heap is the sequence of the Loop records allocated so far, a *Loop is   *)
(* Ptr(a) for the a-th of them or NoLoop for nil; ctx is LoopStack.stack.  *)
(***************************************************************************)
MaxLoops == 3
MaxLoopOps == 5

Ptr(a) == [addr |-> a]
Allocated == {Ptr(a) : a \in 1..Len(heap)}
OnStack == {ctx[i] : i \in 1..Len(ctx)}

InitLoopStack ==
    /\ ctx = <<>> /\ heap = <<>>
    /\ lastOp = [op |-> "NewLoopStack"]
    /\ nops = 0
    /\ input = NoInput /\ phase = "none" /\ program = <<>> /\ result = NoResult
    /\ InheritIdle /\ LoopIdle /\ CacheIdle /\ EngineIdle

LoopCalled ==
    /\ nops < MaxLoopOps
    /\ nops' = nops + 1
    /\ UNCHANGED <<renderVars, inheritVars, loopVars, cacheVars, engineVars>>

\* LoopStack.Push on the stack s with the records h: [heap, stack]
Push(h, s, loop) ==
    [heap |-> [h EXCEPT ![loop.addr] =
                  [@ EXCEPT !.Parent = IF Len(s) > 0 THEN s[Len(s)] ELSE @,
                            !.Depth = Len(s) + 1]],
     stack |-> Append(s, loop)]

Pushed(r) == heap' = r.heap /\ ctx' = r.stack

\* s.Push(NewLoop(count, d))
PushNewLoop(count, d) ==
    /\ LoopCalled
    /\ Len(heap) < MaxLoops
    /\ Pushed(Push(Append(heap, NewLoop(count, d)), ctx, Ptr(Len(heap) + 1)))
    /\ lastOp' = [op |-> "Push", loop |-> Ptr(Len(heap) + 1)]

\* s.Push(loop) of a record made earlier that is in no slot of the stack: one
\* that Pop or Update returned
PushLoop(loop) ==
    /\ LoopCalled
    /\ loop \notin OnStack
    /\ Pushed(Push(heap, ctx, loop))
    /\ lastOp' = [op |-> "Push", loop |-> loop]

\* s.Pop()
PopLoop ==
    /\ LoopCalled
    /\ ctx' = IF Len(ctx) = 0 THEN ctx ELSE SubSeq(ctx, 1, Len(ctx) - 1)
    /\ lastOp' = [op |-> "Pop", ret |-> IF Len(ctx) = 0 THEN NoLoop ELSE ctx[Len(ctx)]]
    /\ UNCHANGED heap

\* l.Update(index): the new record is allocated, its pointer returned
UpdateLoop(l, index) ==
    /\ LoopCalled
    /\ Len(heap) < MaxLoops
    /\ heap' = Append(heap, Update(heap[l.addr], index))
    /\ lastOp' = [op |-> "Update", l |-> l, index |-> index, before |-> heap,
                  ret |-> Ptr(Len(heap) + 1)]
    /\ UNCHANGED ctx

NextLoopStack ==
    \/ \E count \in IntRange, d \in {0, 1} : PushNewLoop(count, d)
    \/ \E loop \in Allocated : PushLoop(loop)
    \/ PopLoop
    \/ \E l \in Allocated, index \in IntRange : UpdateLoop(l, index)
SpecLoopStack == InitLoopStack /\ [][NextLoopStack]_vars

\* --- C21 ------------------------------------------------------------------
\* the record the claim describes for the receiver l and the index
UpdateExpected(l, index) ==
    [Index |-> index, Iteration |-> index + 1,
     Remaining |-> IF l.Count < 0 THEN -1 ELSE l.Count - index - 1,
     Count |-> l.Count, First |-> (index = 0),
     Last |-> (l.Count >= 0 /\ index = l.Count - 1),
     Even |-> ((index + 1) % 2 = 0), Odd |-> ~((index + 1) % 2 = 0),
     Depth |-> l.Depth, Parent |-> l.Parent]

\* C21: Update(index) returns a new record and leaves the receiver (and every
\* other record) as it was; the new record has iteration = index+1,
\* remaining = count-index-1 (-1 for a negative count), last, first, even and
\* odd = not even as the claim gives them, and count, depth and parent copied,
\* for every index and count.
C21_UpdateRecord ==
    lastOp.op = "Update" =>
        /\ lastOp.ret \notin {Ptr(a) : a \in 1..Len(lastOp.before)}
        /\ SubSeq(heap, 1, Len(lastOp.before)) = lastOp.before
        /\ heap[lastOp.ret.addr] = UpdateExpected(lastOp.before[lastOp.l.addr], lastOp.index)

\* the same for the indexes 0..MaxInt-1 and counts whose difference to the
\* index does not overflow (holds)
C21_UpdateFromZero ==
    (/\ lastOp.op = "Update"
     /\ lastOp.index \in 0..(MaxInt - 1)
     /\ lastOp.before[lastOp.l.addr].Count - lastOp.index - 1 \in IntRange) =>
        /\ SubSeq(heap, 1, Len(lastOp.before)) = lastOp.before
        /\ heap[lastOp.ret.addr] = UpdateExpected(lastOp.before[lastOp.l.addr], lastOp.index)

\* --- C22 ------------------------------------------------------------------
\* following Parent from the record n times ends at nil
RECURSIVE ParentsEnd(_, _, _)
ParentsEnd(h, loop, n) ==
    \/ loop = NoLoop
    \/ n > 0 /\ ParentsEnd(h, h[loop.addr].Parent, n - 1)

\* C22: after any sequence of Push and Pop the record in slot i of the stack
\* has depth i, its parent is the record in slot i-1 (none for slot 1), and
\* following the parents of any record ends: there is no cycle.
C22_StackParents ==
    /\ \A i \in 1..Len(ctx) :
           /\ heap[ctx[i].addr].Depth = i
           /\ heap[ctx[i].addr].Parent = IF i = 1 THEN NoLoop ELSE ctx[i - 1]
    /\ \A loop \in Allocated : ParentsEnd(heap, loop, Len(heap))

(***************************************************************************)
(* Compiler output: @switch and the balance of the compiled blocks         *)
(*                                                                         *)
(* A template goes through lexer.Tokenize, Parser.Parse and                *)
(* Compiler.Compile.  The templates are a @switch with up to               *)
(* MaxSwitchPieces clauses and texts, and sequences of up to               *)
(* MaxCompilePieces block directives.                                      *)
(***************************************************************************)
MaxSwitchPieces == 4
MaxCompilePieces == 3

SwitchExpr == <<"x">>
SwitchOpen == DirArgs(<<"s", "w", "i", "t", "c", "h">>, SwitchExpr)
SwitchClose == Dir(<<"e", "n", "d", "s", "w", "i", "t", "c", "h">>)
CasePiece(v) == DirArgs(<<"c", "a", "s", "e">>, v)
DefaultPiece == Dir(<<"d", "e", "f", "a", "u", "l", "t">>)

SwitchPieces ==
    {TextPiece, CasePiece(<<"1">>), CasePiece(<<"2">>), DefaultPiece, Dir(<<"b", "r", "e", "a", "k">>)}

SwitchInputs ==
    {[fam |-> "switch", pieces |-> ps,
      tpl |-> SwitchOpen.text \o PiecesText(ps) \o SwitchClose.text] :
        ps \in SeqsUpTo(SwitchPieces, MaxSwitchPieces)}

CompilePieces ==
    {TextPiece, SwitchOpen, CasePiece(<<"1">>), DefaultPiece, SwitchClose,
     DirArgs(<<"i", "f">>, <<"a">>), Dir(<<"e", "l", "s", "e">>), Dir(<<"e", "n", "d", "i", "f">>),
     DirArgs(<<"f", "o", "r", "e", "a", "c", "h">>, <<"$", "x", "s", " ", "a", "s", " ", "$", "x">>),
     Dir(<<"e", "n", "d", "f", "o", "r", "e", "a", "c", "h">>),
     Dir(<<"e", "n", "d">>)}

NodeInputs ==
    {[fam |-> "nodes", pieces |-> ps, tpl |-> PiecesText(ps)] :
        ps \in SeqsUpTo(CompilePieces, MaxCompilePieces)}

InitCompile ==
    /\ input \in SwitchInputs \cup NodeInputs
    /\ phase = "new" /\ program = <<>> /\ result = NoResult
    /\ InheritIdle /\ LoopIdle /\ AuxIdle

SpecCompile == InitCompile /\ [][NextParse]_vars

CompiledOut == phase = "compiled"

\* --- the switch as the template spells it
IsCase(piece) == piece.k = "dir" /\ Str(piece.name) = "case"
IsDefault(piece) == piece.k = "dir" /\ Str(piece.name) = "default"
CasesOf(ps) == SelectSeq(ps, IsCase)
DefaultIn(ps) == \E i \in 1..Len(ps) : IsDefault(ps[i])

\* the test of a branch: the switch expression equal to the case value
EqTest(expr, value) ==
    <<"e", "q", " ">> \o transformExpression(expr) \o <<" ">> \o transformExpression(value)

IsControl(item) == item.k \in {"if", "elseif", "else", "end"}

\* the if / else if / else / end actions of a compiled text, in order
Skeleton(items) == SelectSeq(items, IsControl)

\* one If: opened by the first action, closed by the last
SingleIf(items) ==
    /\ items # <<>>
    /\ items[1].k = "if"
    /\ MatchingEnd(items, 2, 1) = Len(items)

\* the branches a switch with these cases and default should have
BranchActions(cases, hasDefault) ==
    [i \in 1..Len(cases) |->
        IF i = 1 THEN IfItem(EqTest(SwitchExpr, cases[i].args), FALSE)
        ELSE Item("elseif", EqTest(SwitchExpr, cases[i].args), <<>>, "", 0, FALSE)]
    \o (IF hasDefault THEN <<ElseItem>> ELSE <<>>)
    \o <<EndItem>>

\* C25: every Switch node, whatever its number of cases (zero included) and
\* with or without a default, is compiled to a single well-formed If whose
\* i-th branch tests the switch expression against the i-th case value and
\* whose final else is the default.
C25_SwitchIsOneIf ==
    (CompiledOut /\ input.fam = "switch") =>
        /\ SingleIf(result.out)
        /\ Skeleton(result.out) = BranchActions(CasesOf(input.pieces), DefaultIn(input.pieces))

\* the same for the switches that have at least one case
C25_SwitchWithCasesIsOneIf ==
    (CompiledOut /\ input.fam = "switch" /\ CasesOf(input.pieces) # <<>>) =>
        /\ SingleIf(result.out)
        /\ Skeleton(result.out) = BranchActions(CasesOf(input.pieces), DefaultIn(input.pieces))

\* --- balance
\* the kinds of the blocks open after the items from i on, read with the
\* blocks of open already open; <<"unbalanced">> when an end, else or else if
\* has no block to belong to
RECURSIVE OpenBlocks(_, _, _)
OpenBlocks(items, i, open) ==
    IF i > Len(items) THEN open
    ELSE IF items[i].k \in {"if", "range", "block"}
    THEN OpenBlocks(items, i + 1, <<items[i].k>> \o open)
    ELSE IF items[i].k = "end"
    THEN IF open = <<>> THEN <<"unbalanced">> ELSE OpenBlocks(items, i + 1, Tail(open))
    ELSE IF items[i].k \in {"else", "elseif"}
    THEN IF open = <<>> \/ open[1] # "if" THEN <<"unbalanced">>
         ELSE OpenBlocks(items, i + 1, open)
    ELSE OpenBlocks(items, i + 1, open)

Balanced(items) == OpenBlocks(items, 1, <<>>) = <<>>

\* C29: whatever tree the parser produced, every if, range and block the
\* compiler wrote has its own end, and every else and else if lies inside an
\* open if.
C29_OutputBalanced ==
    CompiledOut => Balanced(result.out)

(***************************************************************************)
(* Inheritance resolution: the span a section replaces                     *)
(***************************************************************************)
\* the blocks left open by the pieces from i on, or <<"crossed">> when a
\* terminator closes nothing or another kind of block
RECURSIVE OpenKinds(_, _, _)
OpenKinds(ps, i, open) ==
    IF i > Len(ps) THEN open
    ELSE IF ps[i].k = "open" THEN OpenKinds(ps, i + 1, <<ps[i].kind>> \o open)
    ELSE IF ps[i].k = "close"
    THEN IF open = <<>> \/ open[1] # ps[i].kind THEN <<"crossed">>
         ELSE OpenKinds(ps, i + 1, Tail(open))
    ELSE OpenKinds(ps, i + 1, open)

\* every @if and @foreach of the body is closed in the body, in order
WellNested(ps) == OpenKinds(ps, 1, <<>>) = <<>>

\* the child's section between what the base has before and after its block
ExpectedSplice == <<TextItem(<<"<">>), TextItem(<<"N">>), TextItem(<<">">>)>>

Resolved == phase \in {"parse", "done"}

BlockCase ==
    /\ input.fam = "block" /\ target = "child" /\ Resolved
    /\ WellNested(input.body)

\* C23: the section body replaces the span from the placeholder's opening to
\* its own matching end: what the ancestor has before and after the
\* placeholder stays, and nothing of the default body is left behind, whatever
\* conditionals, loops and nested placeholders the default body holds.
C23_WholeSpanReplaced == BlockCase => program = ExpectedSplice

\* the same for default bodies whose compiled text is balanced
C23_BalancedSpanReplaced ==
    (BlockCase /\ \A i \in 1..Len(input.body) : input.body[i].k \notin {"leaf", "end"}) =>
        program = ExpectedSplice

\* --- @parent along a chain
\* the content of section b in the template the child extends
NearestSection(inp) ==
    IF inp.levels = 2 THEN (IF inp.midDefines THEN <<"m">> ELSE <<>>)
    ELSE (IF inp.baseDefines THEN <<"p">> ELSE <<>>)

ChainCase == input.fam = "chain" /\ target = "child" /\ phase = "done"

\* C24: @parent in the child's section is replaced by the same-named section
\* of the template the child extends (nothing when that template defines
\* none), and the merged body is what goes up the chain: with child extends
\* mid extends base, mid's content stands where the child wrote @parent.
C24_ParentFromExtended ==
    ChainCase => result = [out |-> <<"x">> \o NearestSection(input) \o <<" ", "y">>, err |-> ""]

\* the same for a child that extends the base directly
C24_ParentFromBase ==
    (ChainCase /\ input.levels = 1) =>
        result = [out |-> <<"x">> \o NearestSection(input) \o <<" ", "y">>, err |-> ""]

(***************************************************************************)
(* @pushOnce and @once within one Compile                                  *)
(*                                                                         *)
(* Templates of up to MaxOnceBlocks blocks, each a @pushOnce or @push onto *)
(* one of two stacks or an @once, go through Tokenize, Parse and Compile.  *)
(***************************************************************************)
MaxOnceBlocks == 3

OnceStacks == {<<"a">>, <<"a", "_", "b">>}
PushContents == {<<"c">>, <<"b", "_", "c">>}
OnceContents == {<<" ", "c">>, <<" ", "d">>}

OnceBlocks ==
    {[k |-> "pushOnce", stack |-> st, content |-> ct,
      text |-> DirArgs(<<"p", "u", "s", "h", "O", "n", "c", "e">>, <<"'">> \o st \o <<"'">>).text
               \o ct \o Dir(<<"e", "n", "d", "P", "u", "s", "h", "O", "n", "c", "e">>).text] :
        st \in OnceStacks, ct \in PushContents}
    \cup {[k |-> "push", stack |-> <<"a">>, content |-> <<"c">>,
           text |-> DirArgs(<<"p", "u", "s", "h">>, <<"'", "a", "'">>).text
                    \o <<"c">> \o Dir(<<"e", "n", "d", "p", "u", "s", "h">>).text]}
    \cup {[k |-> "once", stack |-> <<>>, content |-> ct,
           text |-> Dir(<<"o", "n", "c", "e">>).text \o ct
                    \o Dir(<<"e", "n", "d", "o", "n", "c", "e">>).text] :
            ct \in OnceContents}

OnceInputs ==
    {[fam |-> "once", pieces |-> ps, tpl |-> PiecesText(ps)] :
        ps \in SeqsUpTo(OnceBlocks, MaxOnceBlocks)}

InitOnce ==
    /\ input \in OnceInputs
    /\ phase = "new" /\ program = <<>> /\ result = NoResult
    /\ InheritIdle /\ LoopIdle /\ AuxIdle

SpecOnce == InitOnce /\ [][NextParse]_vars

\* block i repeats an earlier block of its kind, with its content and its stack
Repeats(ps, i) ==
    \E j \in 1..(i - 1) :
        /\ ps[j].k = ps[i].k
        /\ ps[j].content = ps[i].content
        /\ ps[j].stack = ps[i].stack

\* block i is skipped: it is a once block and repeats one
Skipped(ps, i) == ps[i].k \in {"pushOnce", "once"} /\ Repeats(ps, i)

\* the contents of the blocks of the template that go to where: the stack
\* of that name, or the output for @once, in order
RECURSIVE KeptFor(_, _, _, _)
KeptFor(ps, i, kinds, stack) ==
    IF i > Len(ps) THEN <<>>
    ELSE (IF ps[i].k \in kinds /\ ps[i].stack = stack /\ ~Skipped(ps, i)
          THEN <<ps[i].content>> ELSE <<>>)
         \o KeptFor(ps, i + 1, kinds, stack)

\* the literal texts of a list of compiled texts
TextsOf(compiledList) == [i \in 1..Len(compiledList) |-> KeyText(compiledList[i])]

\* the literal texts the compiler wrote to its output, one per block
OutTexts(out) == [i \in 1..Len(out) |-> out[i].x]

\* C26: in one compile pass a @pushOnce is skipped exactly when a @pushOnce
\* with the same compiled content was added to the same stack before, and an
\* @once exactly when an @once with the same compiled content was written
\* before; blocks that differ in content or in stack are all kept.
C26_OnceSkipsRepeats ==
    (CompiledOut /\ input.fam = "once") =>
        /\ \A st \in OnceStacks :
              TextsOf(MapGetSeq(result.pushes, Str(st)))
                  = KeptFor(input.pieces, 1, {"pushOnce", "push"}, st)
        /\ OutTexts(result.out) = KeptFor(input.pieces, 1, {"once"}, <<>>)

\* the same for the templates that push onto one stack only
C26_OnceSkipsRepeatsOneStack ==
    (CompiledOut /\ input.fam = "once"
        /\ \A i \in 1..Len(input.pieces) : input.pieces[i].stack # <<"a", "_", "b">>) =>
        /\ \A st \in OnceStacks :
              TextsOf(MapGetSeq(result.pushes, Str(st)))
                  = KeptFor(input.pieces, 1, {"pushOnce", "push"}, st)
        /\ OutTexts(result.out) = KeptFor(input.pieces, 1, {"once"}, <<>>)

(***************************************************************************)
(* @for: the range the compiler derives and the passes seq gives it        *)
(*                                                                         *)
(* @for($i = M; $i < N; $i++) and @for($i = M; $i <= N; $i++) with         *)
(* 0 <= M <= N <= MaxForValue, written with and without spaces.            *)
(***************************************************************************)
MaxForValue == 11

\* strings.SplitN(s, ";", 3)
SplitN3(s) ==
    LET second(parts) ==
            IF Len(parts) = 1 THEN parts
            ELSE <<parts[1]>> \o SplitN2(parts[2], <<";">>)
    IN second(SplitN2(s, <<";">>))

\* Parser.parseFor: the three parts of the arguments
parseFor(args) ==
    LET node(parts) ==
            [nt |-> "FOR",
             init |-> IF Len(parts) >= 1 THEN TrimSpace(parts[1]) ELSE <<>>,
             condition |-> IF Len(parts) >= 2 THEN TrimSpace(parts[2]) ELSE <<>>,
             post |-> IF Len(parts) >= 3 THEN TrimSpace(parts[3]) ELSE <<>>]
    IN node(SplitN3(args))

\* the offset of the first character from i on that is no white space
RECURSIVE SkipSpaces(_, _)
SkipSpaces(s, i) == IF i <= Len(s) /\ IsSpace(s[i]) THEN SkipSpaces(s, i + 1) ELSE i

\* the end of the run of digits that starts at i
RECURSIVE DigitsEnd(_, _)
DigitsEnd(s, i) == IF i <= Len(s) /\ IsDigit(s[i]) THEN DigitsEnd(s, i + 1) ELSE i

\* where the digits of `<\s*=?\s*(\d+)` start when the match starts at the
\* "<" at i, 0 when there is no match there
ForEndStart(s, i) ==
    LET afterEq(j) == IF j <= Len(s) /\ s[j] = "=" THEN SkipSpaces(s, j + 1) ELSE j
        digits(j) == IF j <= Len(s) /\ IsDigit(s[j]) THEN j ELSE 0
    IN IF s[i] # "<" THEN 0 ELSE digits(afterEq(SkipSpaces(s, i + 1)))

\* re.FindStringSubmatch(cond)[1], <<>> when nothing matches
ForEndMatch(cond) ==
    LET hits == {i \in 1..Len(cond) : ForEndStart(cond, i) # 0}
        first == CHOOSE i \in hits : \A j \in hits : i <= j
        group(j) == SubSeq(cond, j, DigitsEnd(cond, j) - 1)
    IN IF hits = {} THEN <<>> ELSE group(ForEndStart(cond, first))

\* Compiler.extractForRange
extractForRange(n) ==
    LET init0 == IF n.init # <<>> /\ n.init[1] = "$" THEN Tail(n.init) ELSE n.init
        eq == IndexOf(init0, <<"=">>)
        init == IF eq # -1 THEN TrimSpace(Slice(init0, eq + 1, Len(init0))) ELSE init0
        m == ForEndMatch(n.condition)
    IN init \o <<" ">> \o (IF m # <<>> THEN m ELSE <<"1", "0">>)

\* the number a decimal literal stands for
RECURSIVE NatValue(_)
NatValue(chars) ==
    IF chars = <<>> THEN 0
    ELSE 10 * NatValue(SubSeq(chars, 1, Len(chars) - 1))
         + (CHOOSE d \in 0..9 : NatChars(d) = <<chars[Len(chars)]>>)

\* seq(start, end)
seq(start, end) ==
    IF start > end THEN [i \in 1..(start - end + 1) |-> start - (i - 1)]
    ELSE [i \in 1..(end - start + 1) |-> start + (i - 1)]

ForArgs(m, op, n, spaced) ==
    IF spaced
    THEN <<"$", "i", " ", "=", " ">> \o NatChars(m) \o <<";", " ", "$", "i", " ">> \o op
         \o <<" ">> \o NatChars(n) \o <<";", " ", "$", "i", "+", "+">>
    ELSE <<"$", "i", "=">> \o NatChars(m) \o <<";", "$", "i">> \o op
         \o NatChars(n) \o <<";", "$", "i", "+", "+">>

ForInputs ==
    {[fam |-> "for", m |-> m, n |-> n, op |-> op, args |-> ForArgs(m, op, n, sp)] :
        m \in 0..MaxForValue, n \in 0..MaxForValue, op \in {<<"<">>, <<"<", "=">>},
        sp \in BOOLEAN}

InitFor ==
    /\ input \in {in \in ForInputs : in.m <= in.n}
    /\ phase = "new" /\ program = <<>> /\ result = NoResult
    /\ InheritIdle /\ LoopIdle /\ AuxIdle

\* Parser.parseFor on the arguments of the directive
ParseForCall ==
    /\ phase = "new"
    /\ program' = parseFor(input.args)
    /\ phase' = "parsed"
    /\ UNCHANGED <<input, result, inheritVars, loopVars, auxVars>>

\* Compiler.compileFor: the arguments of seq in "{{ range $__idx := seq ... }}"
CompileForCall ==
    /\ phase = "parsed"
    /\ result' = [out |-> extractForRange(program), err |-> ""]
    /\ phase' = "compiled"
    /\ UNCHANGED <<input, program, inheritVars, loopVars, auxVars>>

\* the template's call of seq with the two numbers: the values of the passes
SeqCall ==
    /\ phase = "compiled"
    /\ LET call(fields) == seq(NatValue(fields[1]), NatValue(fields[2]))
       IN result' = [out |-> call(SplitN2(result.out, <<" ">>)), err |-> ""]
    /\ phase' = "done"
    /\ UNCHANGED <<input, program, inheritVars, loopVars, auxVars>>

NextFor == ParseForCall \/ CompileForCall \/ SeqCall
SpecFor == InitFor /\ [][NextFor]_vars

\* the values from a to b, in order; none when a > b
FromTo(a, b) == [i \in 1..(b - a + 1) |-> a + (i - 1)]

ForDone == input.fam = "for" /\ phase = "done"

\* C27: @for($i = M; $i < N; $i++) with literals M <= N iterates over
\* M, ..., N-1 (N-M passes), and with $i <= N over M, ..., N (N-M+1 passes).
C27_ForRange ==
    ForDone =>
        result.out = IF input.op = <<"<">> THEN FromTo(input.m, input.n - 1)
                     ELSE FromTo(input.m, input.n)

\* with either condition the passes are M, ..., N
C27_ForRangeInclusive == ForDone => result.out = FromTo(input.m, input.n)

(***************************************************************************)
(* The parser, one loop iteration at a time                                *)
(*                                                                         *)
(* runs is the stack of the parse functions in progress, each with the     *)
(* loop it is in; result is the Parser (pos, current); nops counts the     *)
(* loop iterations.  A step is one evaluation of the condition of the      *)
(* innermost loop and, when it holds, one pass through the loop's body up  *)
(* to the call of a block parser.  The token sequences are all sequences   *)
(* of up to MaxTokens tokens followed by EOF.                              *)
(***************************************************************************)
MaxTokens == 4
MaxIterations == 12

DirectiveToken(name) == Token("DIRECTIVE", name, <<>>, Position(0, 0, 0))

TokenAlphabet ==
    {Token("TEXT", <<"t">>, <<>>, Position(0, 0, 0)),
     Token("VERBATIM_START", <<>>, <<>>, Position(0, 0, 0))}
    \cup {DirectiveToken(n) :
            n \in {<<"i", "f">>, <<"e", "l", "s", "e", "i", "f">>, <<"e", "l", "s", "e">>,
                   <<"e", "n", "d", "i", "f">>,
                   <<"u", "n", "l", "e", "s", "s">>, <<"e", "n", "d", "u", "n", "l", "e", "s", "s">>,
                   <<"f", "o", "r", "e", "l", "s", "e">>,
                   <<"s", "w", "i", "t", "c", "h">>, <<"c", "a", "s", "e">>,
                   <<"e", "n", "d", "s", "w", "i", "t", "c", "h">>,
                   <<"c", "o", "m", "p", "o", "n", "e", "n", "t">>, <<"s", "l", "o", "t">>,
                   <<"e", "n", "d", "c", "o", "m", "p", "o", "n", "e", "n", "t">>}}

TokenInputs ==
    {[fam |-> "tokens", tokens |-> Append(ts, EOFToken)] : ts \in SeqsUpTo(TokenAlphabet, MaxTokens)}

\* a call in progress: the function, the loop of it that is running, whether
\* parseIf has recorded an elseif or else clause, and the terminators of a block
Frame(fn, loop, recorded, stops) ==
    [fn |-> fn, loop |-> loop, recorded |-> recorded, stops |-> stops]

\* the block parsers whose loop is "children until the terminator"
SimpleBlocks ==
    [unless |-> {"endunless"}, for |-> {"endfor"}, foreach |-> {"endforeach"},
     while |-> {"endwhile"}, section |-> {"endsection", "show"}, push |-> {"endpush"},
     pushOnce |-> {"endPushOnce"}, prepend |-> {"endprepend"}, php |-> {"endphp"},
     isset |-> {"endisset"}, empty |-> {"endempty"}, auth |-> {"endauth"},
     guest |-> {"endguest"}, env |-> {"endenv"}, production |-> {"endproduction"},
     error |-> {"enderror"}, once |-> {"endonce"}]

InitParser ==
    /\ input \in TokenInputs
    /\ phase = "parsing"
    /\ result = NewParser(input.tokens)
    /\ runs = <<Frame("Parse", "main", FALSE, {})>>
    /\ nops = 0
    /\ program = <<>>
    /\ cache = EmptyMap /\ disabled = FALSE
    /\ ctx = <<>> /\ heap = <<>> /\ lastOp = <<>>
    /\ InheritIdle /\ LoopIdle /\ EngineIdle

Top == runs[Len(runs)]
Popped == SubSeq(runs, 1, Len(runs) - 1)
WithTop(frame) == Append(Popped, frame)

\* the loop of the fn on top of the stack is about to evaluate its condition
Iterating(fn) ==
    /\ phase = "parsing" /\ runs # <<>>
    /\ Top.fn = fn
    /\ nops < MaxIterations

\* the parser and the calls in progress after the step
StepTo(p, frames) ==
    /\ result' = p
    /\ runs' = frames
    /\ nops' = nops + 1
    /\ phase' = IF frames = <<>> THEN "done" ELSE phase
    /\ UNCHANGED <<input, program, inheritVars, loopVars, cache, disabled,
                   ctx, heap, lastOp, engineVars>>

\* the frame of the block parser that Parser.parseDirective calls for the
\* name, <<>> for a directive that is a node of its own
CalledFrame(name) ==
    IF name = "if" THEN <<Frame("parseIf", "main", FALSE, {"endif"})>>
    ELSE IF name = "switch" THEN <<Frame("parseSwitch", "main", FALSE, {"endswitch"})>>
    ELSE IF name = "component" THEN <<Frame("parseComponent", "main", FALSE, {"endcomponent"})>>
    ELSE IF name = "forelse" THEN <<Frame("parseForelse", "main", FALSE, {"endforelse"})>>
    ELSE IF name \in DOMAIN SimpleBlocks THEN <<Frame("block", "main", FALSE, SimpleBlocks[name])>>
    ELSE <<>>

\* Parser.parseNode called in a loop body, up to the loop of the block parser
\* it calls, if any
ParseNodeStep(ts, p) ==
    IF p.current.type \in {"DIRECTIVE", "DIRECTIVE_ARGS"}
    THEN StepTo(padvance(ts, p), runs \o CalledFrame(Str(p.current.value)))
    ELSE IF p.current.type = "VERBATIM_START"
    THEN StepTo(padvance(ts, p), Append(runs, Frame("parseVerbatim", "main", FALSE, {})))
    ELSE IF p.current.type = "EOF"
    THEN StepTo(p, runs)
    ELSE StepTo(padvance(ts, p), runs)

\* the condition of the loop of Parser.parseUnless is false
unlessLoopExits(ts, p) == isAtEnd(ts, p) \/ isAnyDirective(p, {"endunless"})

\* the condition of the elseif loop of Parser.parseIf is false
elseIfLoopExits(ts, p) == isAtEnd(ts, p) \/ isAnyDirective(p, {"elseif", "else", "endif"})

\* the condition of the else loop of Parser.parseIf is false
elseLoopExits(ts, p) == isAtEnd(ts, p) \/ isAnyDirective(p, {"endif"})

\* the condition of the loop of a block parser with these terminators is false
blockLoopExits(ts, p, stops) == isAtEnd(ts, p) \/ isAnyDirective(p, stops)

\* the loop of Parser.Parse
ParseIteration ==
    /\ Iterating("Parse")
    /\ IF isAtEnd(input.tokens, result) THEN StepTo(result, Popped)
       ELSE ParseNodeStep(input.tokens, result)

\* the three loops of Parser.parseIf
IfIteration ==
    /\ Iterating("parseIf")
    /\ LET ts == input.tokens
           p == result
       IN IF Top.loop = "elseif"
          THEN IF elseIfLoopExits(ts, p)
               THEN StepTo(p, WithTop(Frame("parseIf", "main", TRUE, Top.stops)))
               ELSE ParseNodeStep(ts, p)
          ELSE IF Top.loop = "else"
          THEN IF elseLoopExits(ts, p)
               THEN StepTo(p, WithTop(Frame("parseIf", "main", TRUE, Top.stops)))
               ELSE ParseNodeStep(ts, p)
          ELSE IF isAtEnd(ts, p) THEN StepTo(p, Popped)
          ELSE IF isDirective(p, "elseif")
          THEN StepTo(padvance(ts, p), WithTop(Frame("parseIf", "elseif", Top.recorded, Top.stops)))
          ELSE IF isDirective(p, "else")
          THEN StepTo(padvance(ts, p), WithTop(Frame("parseIf", "else", Top.recorded, Top.stops)))
          ELSE IF isDirective(p, "endif") THEN StepTo(padvance(ts, p), Popped)
          ELSE IF ~Top.recorded THEN ParseNodeStep(ts, p)
          ELSE StepTo(p, runs)

\* the loop of a block parser that reads children up to its terminator, and
\* of the parsers that read clauses of their own on the way:
\* parseForelse (@empty), parseSwitch (@case, @default, @break),
\* parseComponent (@slot, @endslot)
BlockLoop(clauses) ==
    LET ts == input.tokens
        p == result
    IN IF blockLoopExits(ts, p, Top.stops)
       THEN StepTo(IF isAnyDirective(p, Top.stops) THEN padvance(ts, p) ELSE p, Popped)
       ELSE IF isAnyDirective(p, clauses) THEN StepTo(padvance(ts, p), runs)
       ELSE ParseNodeStep(ts, p)

BlockIteration == Iterating("block") /\ BlockLoop({})
ForelseIteration == Iterating("parseForelse") /\ BlockLoop({"empty"})
SwitchIteration == Iterating("parseSwitch") /\ BlockLoop({"case", "default", "break"})
ComponentIteration == Iterating("parseComponent") /\ BlockLoop({"slot", "endslot"})

\* the loop of Parser.parseVerbatim
VerbatimIteration ==
    /\ Iterating("parseVerbatim")
    /\ IF isAtEnd(input.tokens, result) THEN StepTo(result, Popped)
       ELSE StepTo(padvance(input.tokens, result),
                   IF result.current.type = "VERBATIM_END" THEN Popped ELSE runs)

NextParser ==
    \/ ParseIteration
    \/ IfIteration
    \/ BlockIteration
    \/ ForelseIteration
    \/ SwitchIteration
    \/ ComponentIteration
    \/ VerbatimIteration

SpecParser == InitParser /\ [][NextParser]_vars

\* the step consumed at least one token
Consumed == result'.pos > result.pos

\* the step left the loop it was in: the function returned, or the elseif or
\* else loop of parseIf ended and its main loop goes on
Exited ==
    \/ Len(runs') < Len(runs)
    \/ /\ Len(runs') = Len(runs)
       /\ Top.loop # "main"
       /\ runs'[Len(runs')].loop = "main"

\* C28: every iteration of every block-parsing loop, the loop of parseIf
\* after an elseif or else clause included, consumes at least one token or
\* leaves its loop, so the parser position grows until EOF and Parse returns.
C28_IterationProgresses == [][Consumed \/ Exited]_vars

\* position and depth bound the iterations: Parse returns before the
\* iteration count of the model is used up
C28_ParseReturns == phase = "parsing" => nops < 2 * Len(input.tokens)

\* the main loop of parseIf is about to run on @endif after both an elseif
\* and an else clause were recorded
C28_Witness ==
    /\ phase = "parsing" /\ runs # <<>>
    /\ Top.fn = "parseIf" /\ Top.loop = "main" /\ Top.recorded
    /\ isDirective(result, "endif")
    /\ \E i, j \in 1..Len(input.tokens) :
          /\ i < j /\ j <= result.pos
          /\ Str(input.tokens[i].value) = "elseif"
          /\ Str(input.tokens[j].value) = "else"

(***************************************************************************)
(* The cache and the files on disk                                         *)
(*                                                                         *)
(* fs maps a template name to the content and the modification time of     *)
(* its file.  Time is nops, the number of operations so far: a write at    *)
(* operation n gives the file the modification time n.  The files are      *)
(* base, mid (extends base) and child (extends mid); each has two contents *)
(* and a write switches from one to the other.  A cache entry holds the    *)
(* template, the ModTime it was stored with, and for the properties the    *)
(* files it was compiled from and the time it was stored at.               *)
(***************************************************************************)
MaxCacheOps == 5

DiskNames == {"base", "mid", "child"}

\* the contents a file can have
DiskContent(name, variant) ==
    IF name = "base"
    THEN <<"b">> \o NatChars(variant) \o DirArgs(<<"y", "i", "e", "l", "d">>, <<"'", "t", "'">>).text
    ELSE IF name = "mid"
    THEN Extends(<<"b", "a", "s", "e">>)
         \o (IF variant = 1 THEN <<>> ELSE SectionOf(<<"t">>, <<"m">>))
    ELSE Extends(<<"m", "i", "d">>) \o SectionOf(<<"t">>, <<"c">> \o NatChars(variant))

File(name, variant, modTime) ==
    [content |-> DiskContent(name, variant), variant |-> variant, modTime |-> modTime]

InitCache ==
    /\ fs = [name \in DiskNames |-> File(name, 1, 0)]
    /\ cache = EmptyMap
    /\ disabled = FALSE
    /\ runs = <<>>
    /\ nops = 0
    /\ lastOp = [op |-> "NewEngine"]
    /\ ctx = <<>> /\ heap = <<>>
    /\ input = NoInput /\ phase = "none" /\ program = <<>> /\ result = NoResult
    /\ target = "" /\ sections = EmptyMap /\ next = "" /\ depth = 0 /\ chain = <<>>
    /\ LoopIdle /\ EngineIdle

CacheCalled ==
    /\ nops < MaxCacheOps
    /\ nops' = nops + 1
    /\ UNCHANGED <<renderVars, target, sections, next, depth, chain, loopVars, runs,
                   disabled, ctx, heap, engineVars>>

\* the file is written with its other content
ModifyFile(name) ==
    /\ CacheCalled
    /\ fs' = [fs EXCEPT ![name] = File(name, 3 - fs[name].variant, nops + 1)]
    /\ lastOp' = [op |-> "write", name |-> name]
    /\ UNCHANGED cache

\* what compileFile returns: the template, its ModTime, and the files read
Built(template, modTime, sources) ==
    [template |-> template, modTime |-> modTime, sources |-> sources, err |-> ""]
BuildFailed == [template |-> <<>>, modTime |-> 0, sources |-> {}, err |-> "failed"]

\* Engine.compileWithInheritance(name, compiled, parentName, childSections):
\* the results it can return, one for each iteration order of the section map
RECURSIVE compileWithInheritance(_, _, _, _, _)
\* the end of one call: the recursion for a parent that extends, else
\* template.Parse and the parent's ModTime
inheritResult(files, spliced, p, parentName, merged, sources) ==
    IF p.extends # <<>>
    THEN compileWithInheritance(files, spliced, Str(p.extends), merged, sources)
    ELSE IF ParseTemplate(spliced).err # "" THEN {BuildFailed}
    ELSE {Built(spliced, files[parentName].modTime, sources)}

inheritFrom(files, p, parentName, merged, sources) ==
    UNION {inheritResult(files, SpliceAll(p.compiled, p.sections, merged, order),
                         p, parentName, merged, sources) :
           order \in MapOrders(DOMAIN merged)}

compiledParent(files, p, parentName, childSections, sources) ==
    IF p.err # "" THEN {BuildFailed}
    ELSE inheritFrom(files, p, parentName, MergeSections(childSections, p.sections),
                     sources \cup {parentName})

compileWithInheritance(files, compiled, parentName, childSections, sources) ==
    IF parentName \notin DOMAIN files THEN {BuildFailed}
    ELSE compiledParent(files, compile(files[parentName].content), parentName,
                        childSections, sources)

\* Engine.compileFile(name, filePath)
compileFile(files, name) ==
    LET build(c) ==
            IF c.err # "" THEN {BuildFailed}
            ELSE IF c.extends # <<>>
            THEN compileWithInheritance(files, c.compiled, Str(c.extends), c.sections, {name})
            ELSE IF ParseTemplate(c.compiled).err # "" THEN {BuildFailed}
            ELSE {Built(c.compiled, files[name].modTime, {name})}
    IN build(compile(files[name].content))

\* TemplateCache.IsValid(name, filePath)
IsValid(name) ==
    /\ ~disabled
    /\ name \in DOMAIN cache
    /\ ~(fs[name].modTime > cache[name].modTime)

\* Engine.getTemplate(name)
getTemplate(name) ==
    /\ CacheCalled
    /\ UNCHANGED fs
    /\ IF ~disabled /\ name \in DOMAIN cache /\ IsValid(name)
       THEN /\ lastOp' = [op |-> "getTemplate", name |-> name, cached |-> TRUE,
                          template |-> cache[name].template,
                          sources |-> cache[name].sources, storedAt |-> cache[name].storedAt]
            /\ UNCHANGED cache
       ELSE \E b \in compileFile(fs, name) :
               /\ lastOp' = [op |-> "getTemplate", name |-> name, cached |-> FALSE,
                             template |-> b.template, sources |-> b.sources,
                             storedAt |-> nops + 1]
               /\ cache' = IF b.err = "" /\ ~disabled
                           THEN MapSet(cache, name,
                                       [template |-> b.template, modTime |-> b.modTime,
                                        sources |-> b.sources, storedAt |-> nops + 1])
                           ELSE cache

NextCache ==
    \/ \E name \in DiskNames : ModifyFile(name)
    \/ \E name \in DiskNames : getTemplate(name)

SpecCache == InitCache /\ [][NextCache]_vars

ServedFromCache == lastOp.op = "getTemplate" /\ lastOp.cached

\* C30: with caching enabled, whatever renders and writes came before, the
\* program a render takes from the cache is not older than the last write of
\* the template's own file or of any ancestor file it was resolved against.
C30_NoStaleProgram ==
    ServedFromCache => \A f \in lastOp.sources : fs[f].modTime <= lastOp.storedAt

\* the same for the template's own file
C30_OwnFileNotNewer ==
    ServedFromCache => fs[lastOp.name].modTime <= lastOp.storedAt
====
